---- MODULE Spec2Model ----
(***************************************************************************)
(* DLBMT load-balancing engine (src/dlbmt/real_dlbmt_engine.py).           *)
(*                                                                         *)
(* Python floats are modelled as exact rationals <<n, d>> in lowest terms  *)
(* with d > 0, so every comparison the engine makes is decided exactly.    *)
(* The distinguished pair Inf == <<1, 0>> stands for float("inf").         *)
(***************************************************************************)
EXTENDS Integers, Sequences, FiniteSets, TLC

VARIABLES
    controllers,        \* RealDLBMTEngine.controllers : id -> Controller
    switches,           \* RealDLBMTEngine.switches    : id -> Switch
    migration_history,  \* RealDLBMTEngine.migration_history
    distances,          \* RealDLBMTEngine.distances   : switch id -> controller id -> d
    timeseries,         \* RealDLBMTEngine.timeseries
    now,                \* the reading of time.time()
    last,               \* the handler that completed last, what it returned and
                        \* the warning or error it logged
    graph,              \* the call of the graph generator in progress: its
                        \* arguments, its locals and where it stands
    random,             \* the random module: the values Random(42) has produced
                        \* so far and the draws made from the shared generator
    loaded,             \* what get_topology has returned, call by call
    app,                \* app.py: its module globals, who holds sim_lock, and
                        \* where the simulation thread and a request stand
    agent               \* ryu_dlbmt_app.py: DLBMTRyuApp.switch_packet_counts,
                        \* where _monitor stands and the payloads it has built

\* everything outside the engine object
loader_vars == <<graph, random, loaded, app, agent>>

vars == <<controllers, switches, migration_history, distances, timeseries, now, last,
          graph, random, loaded, app, agent>>

-----------------------------------------------------------------------------
(* Exact rational arithmetic                                               *)

Abs(x) == IF x < 0 THEN -x ELSE x

RECURSIVE GCD(_, _)
GCD(a, b) == IF b = 0 THEN a ELSE GCD(b, a % b)

\* n/d in lowest terms, d > 0
Rat(n, d) == LET g == GCD(Abs(n), d) IN <<n \div g, d \div g>>

R(n) == <<n, 1>>

RNeg(a) == <<-a[1], a[2]>>

RAdd(a, b) ==
    LET g == GCD(a[2], b[2])
    IN  Rat(a[1] * (b[2] \div g) + b[1] * (a[2] \div g), (a[2] \div g) * b[2])

RSub(a, b) == RAdd(a, RNeg(b))

RMul(a, b) ==
    LET g1 == GCD(Abs(a[1]), b[2])
        g2 == GCD(Abs(b[1]), a[2])
    IN  Rat((a[1] \div g1) * (b[1] \div g2), (a[2] \div g2) * (b[2] \div g1))

\* a / b for b # 0
RDiv(a, b) ==
    IF b[1] > 0 THEN RMul(a, <<b[2], b[1]>>)
                ELSE RMul(a, <<-b[2], -b[1]>>)

\* a/b < c/d for a, c >= 0 and b, d > 0, by continued fractions: no product
\* is formed, so the comparison cannot overflow
RECURSIVE CFLess(_, _, _, _)
CFLess(a, b, c, d) ==
    LET q1 == a \div b
        q2 == c \div d
        r1 == a % b
        r2 == c % d
    IN  IF q1 # q2 THEN q1 < q2
        ELSE IF r2 = 0 THEN FALSE
        ELSE IF r1 = 0 THEN TRUE
        ELSE CFLess(d, r2, b, r1)

RLess(a, b) ==
    IF a[1] < 0
    THEN IF b[1] >= 0 THEN TRUE ELSE CFLess(-b[1], b[2], -a[1], a[2])
    ELSE IF b[1] < 0 THEN FALSE ELSE CFLess(a[1], a[2], b[1], b[2])

RLeq(a, b) == ~RLess(b, a)

RMin(a, b) == IF RLess(b, a) THEN b ELSE a   \* Python min(a, b)
RMax(a, b) == IF RLess(a, b) THEN b ELSE a   \* Python max(a, b)
RAbs(a) == <<Abs(a[1]), a[2]>>

Inf == <<1, 0>>

\* a < b on floats that may be float("inf")
FLess(a, b) ==
    IF a = Inf THEN FALSE ELSE IF b = Inf THEN TRUE ELSE RLess(a, b)

-----------------------------------------------------------------------------
(* Constants & configuration                                               *)

THRESHOLDS == <<R(25), R(50), R(75)>>      \* T_idle, T_normal, T_high

\* ControllerLevel (IntEnum)
IDLE == 1
NORMAL == 2
HIGH == 3
OVERLOAD == 4

DEFAULT_ALPHA == Rat(4, 10)
DEFAULT_BETA == Rat(3, 10)
DEFAULT_GAMMA == Rat(3, 10)

TRAFFIC_TO_CPU_FACTOR == Rat(15, 10)
TRAFFIC_TO_MEM_FACTOR == Rat(4, 10)
TRAFFIC_TO_BW_FACTOR == Rat(25, 100)

\* None: "None" where the other values are strings, << >> where they are
\* records (an optional record is a sequence of at most one record)
NoneVal == "None"
Nothing == << >>

-----------------------------------------------------------------------------
(* Topology data.  get_topology places the controllers at graph nodes,     *)
(* exposes every node i as switch s<i> and assigns each switch to the      *)
(* nearest controller site.  The layouts below are small instances of that *)
(* output: node positions inside the layout rectangle [100,900]x[100,500],  *)
(* the controller sites, and one capacity vector per controller.           *)

TOPOLOGIES ==
    [ pair |->
        [ positions   |-> << <<100, 100>>, <<400, 100>>, <<400, 500>> >>,
          ctrl_nodes  |-> <<1, 3>>,
          capacities  |-> << [cpu |-> 60, mem |-> 8,  bw |-> 10],
                             [cpu |-> 90, mem |-> 24, bw |-> 15] >> ],
      triple |->
        [ positions   |-> << <<100, 100>>, <<400, 100>>, <<400, 500>>,
                             <<700, 100>> >>,
          ctrl_nodes  |-> <<1, 3, 4>>,
          capacities  |-> << [cpu |-> 60, mem |-> 8,  bw |-> 10],
                             [cpu |-> 30, mem |-> 8,  bw |-> 5],
                             [cpu |-> 90, mem |-> 24, bw |-> 15] >> ],
      scenario |->
        [ positions   |-> << <<100, 300>>, <<200, 300>>, <<300, 300>>,
                             <<900, 300>> >>,
          ctrl_nodes  |-> <<1, 4>>,
          capacities  |-> << [cpu |-> 100, mem |-> 4096, bw |-> 1000],
                             [cpu |-> 100, mem |-> 4096, bw |-> 1000] >> ],
      corner |->
        [ positions   |-> << <<100, 100>>, <<900, 490>>, <<500, 295>> >>,
          ctrl_nodes  |-> <<1, 2>>,
          capacities  |-> << [cpu |-> 60, mem |-> 8,  bw |-> 10],
                             [cpu |-> 90, mem |-> 24, bw |-> 15] >> ],
      sim |->
        [ positions   |-> << <<100, 100>>, <<400, 100>>, <<400, 500>> >>,
          ctrl_nodes  |-> <<1, 3>>,
          capacities  |-> << [cpu |-> 60, mem |-> 120, bw |-> 5],
                             [cpu |-> 90, mem |-> 200, bw |-> 8] >> ],
      ten |->
        [ positions   |-> << <<100, 300>>, <<260, 420>>, <<485, 300>>,
                             <<854, 300>>, <<450, 300>>, <<600, 300>>,
                             <<150, 300>>, <<800, 300>>, <<900, 300>>,
                             <<260, 180>> >>,
          ctrl_nodes  |-> <<1, 3, 4>>,
          capacities  |-> << [cpu |-> 60, mem |-> 8,  bw |-> 10],
                             [cpu |-> 60, mem |-> 8,  bw |-> 10],
                             [cpu |-> 90, mem |-> 24, bw |-> 15] >> ] ]

\* the layouts Spec constructs the engine for
TopologyNames == {"pair", "triple"}

\* f"c{i+1}" and f"s{i+1}", and int(sid[1:])
ControllerName == <<"c1", "c2", "c3">>
SwitchName == <<"s1", "s2", "s3", "s4", "s5", "s6", "s7", "s8", "s9", "s10">>
DpidOf == [s1 |-> 1, s2 |-> 2, s3 |-> 3, s4 |-> 4, s5 |-> 5, s6 |-> 6, s7 |-> 7,
           s8 |-> 8, s9 |-> 9, s10 |-> 10]

\* math.sqrt on the squared distances of the layouts above (all of them
\* perfect squares)
Sqrt(n) == CHOOSE r \in 0..1000 : r * r <= n /\ n < (r + 1) * (r + 1)

EuclidSq(p, q) == (p[1] - q[1]) * (p[1] - q[1]) + (p[2] - q[2]) * (p[2] - q[2])

\* get_topology: the nearest controller in list order; the strict < keeps
\* the first of several equally near ones
RECURSIVE NearestFrom(_, _, _, _, _)
NearestFrom(cfg, pos, i, best, minSq) ==
    IF i > Len(cfg.ctrl_nodes) THEN best
    ELSE LET d == EuclidSq(pos, cfg.positions[cfg.ctrl_nodes[i]])
         IN  IF best = 0 \/ d < minSq
             THEN NearestFrom(cfg, pos, i + 1, i, d)
             ELSE NearestFrom(cfg, pos, i + 1, best, minSq)

\* get_topology from the placement on: cfg holds the node positions, the
\* controller nodes and the capacities
Located(cfg) ==
    LET nc == Len(cfg.ctrl_nodes)
        nn == Len(cfg.positions)
    IN  [ controllers |->
            [i \in 1..nc |->
                [ id |-> ControllerName[i],
                  capacity_cpu |-> cfg.capacities[i].cpu,
                  capacity_mem |-> cfg.capacities[i].mem,
                  capacity_bw  |-> cfg.capacities[i].bw,
                  x |-> cfg.positions[cfg.ctrl_nodes[i]][1],
                  y |-> cfg.positions[cfg.ctrl_nodes[i]][2] ]],
          switches |-> [i \in 1..nn |-> SwitchName[i]],
          assignments |->
            [s \in {SwitchName[i] : i \in 1..nn} |->
                LET i == CHOOSE j \in 1..nn : SwitchName[j] = s
                IN  ControllerName[NearestFrom(cfg, cfg.positions[i], 1, 0, 0)]],
          positions |->
            [s \in {SwitchName[i] : i \in 1..nn} |->
                LET i == CHOOSE j \in 1..nn : SwitchName[j] = s
                IN  cfg.positions[i]] ]

get_topology(name) == Located(TOPOLOGIES[name])

-----------------------------------------------------------------------------
(* Engine state after construction                                         *)

\* dict iteration order: insertion order, s1.. and c1..
SwitchIds(sws) == SelectSeq(SwitchName, LAMBDA s : s \in DOMAIN sws)
ControllerIds(ctrls) == SelectSeq(ControllerName, LAMBDA c : c \in DOMAIN ctrls)

RpcPort(cid) == 6632 + (CHOOSE i \in 1..Len(ControllerName) : ControllerName[i] = cid)

\* Controller(...) with the dataclass defaults
NewController(c) ==
    [ id |-> c.id, rpc_port |-> RpcPort(c.id), x |-> c.x, y |-> c.y,
      active |-> TRUE,
      capacity_cpu |-> c.capacity_cpu, capacity_mem |-> c.capacity_mem,
      capacity_bw |-> c.capacity_bw,
      cpu_utilization |-> R(0), mem_utilization |-> R(0),
      bw_utilization |-> R(0),
      load_percentage |-> R(0), level |-> IDLE, last_update |-> 0 ]

\* Switch(...) with the dataclass defaults
NewSwitch(sid, cid, pos) ==
    [ id |-> sid, dpid |-> DpidOf[sid], controller_id |-> cid,
      x |-> pos[1], y |-> pos[2],
      packet_in_rate |-> R(0),
      load_cpu |-> R(0), load_mem |-> R(0), load_bw |-> R(0),
      flow_count |-> 0 ]

\* dpid -> switch id; it never changes after construction
dpid_map(sws) ==
    [d \in {sws[s].dpid : s \in DOMAIN sws} |->
        CHOOSE s \in DOMAIN sws : sws[s].dpid = d]

\* the controllers, switches and distance matrix _init_topology builds from
\* what get_topology returned
Constructed(topo_data) ==
    LET cs == topo_data.controllers
        ctrls == [cid \in {cs[i].id : i \in DOMAIN cs} |->
                    NewController(CHOOSE c \in {cs[i] : i \in DOMAIN cs} : c.id = cid)]
        sws == [sid \in DOMAIN topo_data.assignments |->
                    NewSwitch(sid, topo_data.assignments[sid],
                              topo_data.positions[sid])]
    IN  [ controllers |-> ctrls,
          switches |-> sws,
          distances |->
              [sid \in DOMAIN sws |-> [cid \in DOMAIN ctrls |->
                  Rat(Sqrt(EuclidSq(<<sws[sid].x, sws[sid].y>>,
                                    <<ctrls[cid].x, ctrls[cid].y>>)), 800)]] ]

_init_topology(name) ==
    LET built == Constructed(get_topology(name))
    IN  /\ controllers = built.controllers
        /\ switches = built.switches
        /\ distances = built.distances

\* no call of the graph generator in progress
NoGraph ==
    [ stage |-> "idle", name |-> NoneVal, nodes |-> 0, edges |-> 0,
      controllers |-> 0,
      links |-> {}, curr_edges |-> 0, attempts |-> 0 ]

\* app.py when its module has been imported and main has started the thread:
\* the globals, sim_lock free, the simulation thread at the head of its loop,
\* no request in progress
AppStart ==
    [ auto_migration_enabled |-> TRUE,
      simulation_speed |-> <<1, 1>>,
      simulation_running |-> TRUE,
      sim_lock |-> "free",
      loop |-> "while",
      interval |-> <<0, 1>>,
      ticks |-> 0,
      pending |-> Nothing,
      request |-> "idle",
      at |-> "idle",
      requests |-> 0,
      seen |-> NoneVal ]

\* datapath ids of the switches that connect to one agent
AgentDpids == {1, 2}

\* str(dpid)
str(dpid) == CASE dpid = 1 -> "1" [] dpid = 2 -> "2"

\* a dict of counts is a function over every key it may hold; a key it does
\* not hold has -1
NoKey(keys) == [k \in keys |-> -1]

\* DLBMTRyuApp as constructed: no switch counted, _monitor about to sleep;
\* payloads are the payloads built so far and packet_ins the packet-in
\* events handled so far
AgentStart ==
    [ switch_packet_counts |-> NoKey(AgentDpids),
      monitor |-> "sleep",
      keys |-> << >>,
      counts |-> NoKey({str(d) : d \in AgentDpids}),
      payloads |-> << >>,
      packet_ins |-> [d \in AgentDpids |-> 0] ]

\* the random module as imported: nothing drawn yet
FreshRandom == [ stream |-> << >>, shared |-> 0 ]

\* the engine as constructed for one topology name
InitOf(name) ==
    /\ _init_topology(name)
    /\ migration_history = << >>
    /\ timeseries = << >>
    /\ now = 1
    /\ last = [op |-> "__init__", actuator |-> NoneVal, ret |-> Nothing, log |-> NoneVal]
    /\ graph = NoGraph
    /\ random = FreshRandom
    /\ loaded = << >>
    /\ app = AppStart
    /\ agent = AgentStart

Init == \E name \in TopologyNames : InitOf(name)

-----------------------------------------------------------------------------
(* Eq 4: controller load and level                                         *)

RECURSIVE SumOver(_, _, _)
SumOver(sws, ids, field) ==
    IF ids = << >> THEN R(0)
    ELSE RAdd(sws[Head(ids)][field], SumOver(sws, Tail(ids), field))

\* [s for s in self.switches.values() if s.controller_id == cid]
DomSwitches(sws, cid) ==
    SelectSeq(SwitchIds(sws), LAMBDA s : sws[s].controller_id = cid)

\* the level with the thresholds compared inclusively
LevelOfInclusive(load) ==
    IF RLeq(load, THRESHOLDS[1]) THEN IDLE
    ELSE IF RLeq(load, THRESHOLDS[2]) THEN NORMAL
    ELSE IF RLeq(load, THRESHOLDS[3]) THEN HIGH
    ELSE OVERLOAD

LevelOf(load) ==
    IF RLess(load, THRESHOLDS[1]) THEN IDLE
    ELSE IF RLess(load, THRESHOLDS[2]) THEN NORMAL
    ELSE IF RLess(load, THRESHOLDS[3]) THEN HIGH
    ELSE OVERLOAD

\* min(total / capacity, 1.0)
Ratio(total, capacity) == RMin(RDiv(total, R(capacity)), R(1))

\* the weighted sum with no clamping of the ratios or of the result
LoadOfUnclamped(ctrl, sws) ==
    LET dom == DomSwitches(sws, ctrl.id)
        r_cpu == RDiv(SumOver(sws, dom, "load_cpu"), R(ctrl.capacity_cpu))
        r_mem == RDiv(SumOver(sws, dom, "load_mem"), R(ctrl.capacity_mem))
        r_bw  == RDiv(SumOver(sws, dom, "load_bw"), R(ctrl.capacity_bw))
    IN  IF dom = << >> THEN R(0)
        ELSE RMul(RAdd(RAdd(RMul(DEFAULT_ALPHA, r_cpu), RMul(DEFAULT_BETA, r_mem)),
                       RMul(DEFAULT_GAMMA, r_bw)), R(100))

\* a load that adds to the stored one
LoadOfRunning(ctrl, sws) ==
    RMin(RAdd(ctrl.load_percentage, LoadOfUnclamped(ctrl, sws)), R(100))

LoadOf(ctrl, sws) ==
    LET dom == DomSwitches(sws, ctrl.id)
        r_cpu == Ratio(SumOver(sws, dom, "load_cpu"), ctrl.capacity_cpu)
        r_mem == Ratio(SumOver(sws, dom, "load_mem"), ctrl.capacity_mem)
        r_bw  == Ratio(SumOver(sws, dom, "load_bw"), ctrl.capacity_bw)
        load  == RMul(RAdd(RAdd(RMul(DEFAULT_ALPHA, r_cpu),
                                RMul(DEFAULT_BETA, r_mem)),
                           RMul(DEFAULT_GAMMA, r_bw)), R(100))
    IN  IF dom = << >> THEN R(0) ELSE RMin(load, R(100))

\* the controller record after _compute_controller_load(ctrl)
_compute_controller_load(ctrl, sws) ==
    LET load == LoadOf(ctrl, sws)
    IN  [ctrl EXCEPT !.load_percentage = load, !.level = LevelOf(load)]

-----------------------------------------------------------------------------
(* Telemetry ingest                                                        *)

\* packet counts an agent may report for one switch in one window
Counts == {0, 10, 20}

\* int(dpid_str) for the keys the agents send
IntOf == [k \in {"1", "2", "3", "4", "5", "6", "10"} |->
            CASE k = "1" -> 1 [] k = "2" -> 2 [] k = "3" -> 3 [] k = "4" -> 4
              [] k = "5" -> 5 [] k = "6" -> 6 [] k = "10" -> 10]

\* str(dpid) of the switches that report in Spec
DpidStrings == {"1", "2", "3", "4"}

\* entries of one report
MaxEntries == 1

\* the "switches" objects over the keys and JSON numbers given: dpid string
\* -> packet count, a JSON number being <<numerator, denominator>>
PayloadsOver(keys, numbers) ==
    UNION {[ks -> numbers] : ks \in {k \in SUBSET keys : Cardinality(k) <= MaxEntries}}

\* the "switches" object of a report of an agent
Payloads == PayloadsOver(DpidStrings, {<<c, 1>> : c \in Counts})

\* the lookup without the ownership test
EntryForAnyOwner(data, sw) ==
    LET ks == {k \in DOMAIN data.switches :
                  /\ IntOf[k] \in DOMAIN dpid_map(switches)
                  /\ dpid_map(switches)[IntOf[k]] = sw.id}
    IN  IF ks = {} THEN NoneVal ELSE CHOOSE k \in ks : TRUE

\* the entry of the report that the loop applies to switch sw, or NoneVal:
\* its key is the switch's dpid and the switch is owned by the reporter
EntryFor(data, sw) ==
    LET ks == {k \in DOMAIN data.switches :
                  /\ IntOf[k] \in DOMAIN dpid_map(switches)
                  /\ dpid_map(switches)[IntOf[k]] = sw.id
                  /\ sw.controller_id = data.controller_id}
    IN  IF ks = {} THEN NoneVal ELSE CHOOSE k \in ks : TRUE

\* float(pkt_count) of the JSON number n/d
Float(pkt_count) == Rat(pkt_count[1], pkt_count[2])

ApplyEntry(sw, pkt_count) ==
    LET rate == Float(pkt_count)
    IN  [sw EXCEPT !.packet_in_rate = rate,
                   !.load_cpu = RMul(rate, TRAFFIC_TO_CPU_FACTOR),
                   !.load_mem = RMul(rate, TRAFFIC_TO_MEM_FACTOR),
                   !.load_bw  = RMul(rate, TRAFFIC_TO_BW_FACTOR)]

\* min(total / capacity * 100, 100.0)
Utilization(total, capacity) ==
    RMin(RMul(RDiv(total, R(capacity)), R(100)), R(100))

\* the switches after the loop over the entries of the report
ApplyReport(sws, data) ==
    [s \in DOMAIN sws |->
        LET k == EntryFor(data, sws[s])
        IN  IF k = NoneVal THEN sws[s] ELSE ApplyEntry(sws[s], data.switches[k])]

\* the reporting controller with the utilizations redone and the load left
MeteredWithoutLoad(ctrl, sws) ==
    LET dom == DomSwitches(sws, ctrl.id)
    IN  [ctrl EXCEPT
           !.last_update = now,
           !.cpu_utilization =
               Utilization(SumOver(sws, dom, "load_cpu"), ctrl.capacity_cpu),
           !.mem_utilization =
               Utilization(SumOver(sws, dom, "load_mem"), ctrl.capacity_mem),
           !.bw_utilization =
               Utilization(SumOver(sws, dom, "load_bw"), ctrl.capacity_bw)]

\* the reporting controller after the totals, utilizations and load are redone
Metered(ctrl, sws) ==
    LET dom == DomSwitches(sws, ctrl.id)
        c1 == [ctrl EXCEPT
                 !.last_update = now,
                 !.cpu_utilization =
                     Utilization(SumOver(sws, dom, "load_cpu"), ctrl.capacity_cpu),
                 !.mem_utilization =
                     Utilization(SumOver(sws, dom, "load_mem"), ctrl.capacity_mem),
                 !.bw_utilization =
                     Utilization(SumOver(sws, dom, "load_bw"), ctrl.capacity_bw)]
    IN  _compute_controller_load(c1, sws)

\* the controller ids a report may carry
ReporterIds == DOMAIN controllers

\* a drop that stamps last_update on every controller first
DropReportStamped ==
    /\ controllers' = [c \in DOMAIN controllers |->
                          [controllers[c] EXCEPT !.last_update = now]]
    /\ UNCHANGED switches
    /\ last' = [op |-> "update_controller_metrics", actuator |-> NoneVal,
                ret |-> Nothing, log |-> "Unknown controller_id"]

\* the report is dropped with a warning
DropReport ==
    /\ UNCHANGED <<controllers, switches>>
    /\ last' = [op |-> "update_controller_metrics", actuator |-> NoneVal,
                ret |-> Nothing, log |-> "Unknown controller_id"]

\* the handler for one report; the process cpu and memory fields an agent
\* also sends are never read by the engine
Ingest(data) ==
    /\ IF data.controller_id = NoneVal \/ data.controller_id \notin DOMAIN controllers
       THEN DropReport
       ELSE /\ switches' = ApplyReport(switches, data)
            /\ controllers' =
                  [controllers EXCEPT ![data.controller_id] =
                      Metered(controllers[data.controller_id], switches')]
            /\ last' = [op |-> "update_controller_metrics", actuator |-> NoneVal,
                        ret |-> Nothing, log |-> NoneVal]
    /\ UNCHANGED <<migration_history, distances, timeseries, now>>
    /\ UNCHANGED loader_vars

\* one report of an agent arrives and is ingested
update_controller_metrics ==
    \E cid \in ReporterIds, p \in Payloads :
        Ingest([controller_id |-> cid, switches |-> p])

-----------------------------------------------------------------------------
(* Eq 5-10: usage, cost, imbalance, efficiency                             *)

\* Eq 5: usage of the switch on a controller (no clamping)
_switch_resource_usage(switch, ctrl) ==
    LET r_cpu == IF ctrl.capacity_cpu > 0
                 THEN RDiv(switch.load_cpu, R(ctrl.capacity_cpu)) ELSE R(0)
        r_mem == IF ctrl.capacity_mem > 0
                 THEN RDiv(switch.load_mem, R(ctrl.capacity_mem)) ELSE R(0)
        r_bw  == IF ctrl.capacity_bw > 0
                 THEN RDiv(switch.load_bw, R(ctrl.capacity_bw)) ELSE R(0)
    IN  RAdd(RAdd(RMul(DEFAULT_ALPHA, r_cpu), RMul(DEFAULT_BETA, r_mem)),
             RMul(DEFAULT_GAMMA, r_bw))

\* Eq 7: the same projection on a prospective target
_switch_resource_on_target(switch, target) ==
    LET r_cpu == IF target.capacity_cpu > 0
                 THEN RDiv(switch.load_cpu, R(target.capacity_cpu)) ELSE R(0)
        r_mem == IF target.capacity_mem > 0
                 THEN RDiv(switch.load_mem, R(target.capacity_mem)) ELSE R(0)
        r_bw  == IF target.capacity_bw > 0
                 THEN RDiv(switch.load_bw, R(target.capacity_bw)) ELSE R(0)
    IN  RAdd(RAdd(RMul(DEFAULT_ALPHA, r_cpu), RMul(DEFAULT_BETA, r_mem)),
             RMul(DEFAULT_GAMMA, r_bw))

\* Eq 6
_migration_cost(switch, source, target) ==
    LET dist == IF switch.id \in DOMAIN distances
                   /\ target.id \in DOMAIN distances[switch.id]
                THEN distances[switch.id][target.id] ELSE R(1)
        usage == _switch_resource_usage(switch, source)
    IN  RMul(dist, RAdd(usage, Rat(1, 1000)))

\* the same with the floor at 10
ImbalanceFloorTen(l1, l2) ==
    LET max_load == RMax(l1, l2)
    IN  IF RLess(max_load, R(10)) THEN R(0)
        ELSE RDiv(RAbs(RSub(l1, l2)), max_load)

\* |l1 - l2| / max(l1, l2), or 0 below the 0.01 floor
Imbalance(l1, l2) ==
    LET max_load == RMax(l1, l2)
    IN  IF RLess(max_load, Rat(1, 100)) THEN R(0)
        ELSE RDiv(RAbs(RSub(l1, l2)), max_load)

\* Eq 8
_pairwise_imbalance(c1, c2) == Imbalance(c1.load_percentage, c2.load_percentage)

\* Eq 9 over a controller registry
GlobalImbalanceOf(ctrls) ==
    LET active == SelectSeq(ControllerIds(ctrls), LAMBDA c : ctrls[c].active)
        dcs == {_pairwise_imbalance(ctrls[active[i]], ctrls[active[j]]) :
                  i \in 1..Len(active), j \in 1..Len(active)}
    IN  IF Len(active) < 2 THEN R(0)
        ELSE CHOOSE m \in dcs : \A d \in dcs : RLeq(d, m)

_global_imbalance == GlobalImbalanceOf(controllers)

PredSource(switch, source) ==
    RMax(RSub(source.load_percentage,
              RMul(_switch_resource_usage(switch, source), R(100))), R(0))

PredTarget(switch, target) ==
    RMin(RAdd(target.load_percentage,
              RMul(_switch_resource_on_target(switch, target), R(100))), R(100))

\* Eq 10 with the refusal reduced to the case of no change at all
_migration_efficiency_unless_equal(switch, source, target) ==
    LET cost == _migration_cost(switch, source, target)
        dc_before == _pairwise_imbalance(source, target)
        dc_after == Imbalance(PredSource(switch, source), PredTarget(switch, target))
        delta_dc == RSub(dc_before, dc_after)
    IN  IF delta_dc = R(0) THEN Inf ELSE RDiv(cost, delta_dc)

\* Eq 10
_migration_efficiency(switch, source, target) ==
    LET cost == _migration_cost(switch, source, target)
        dc_before == _pairwise_imbalance(source, target)
        dc_after == Imbalance(PredSource(switch, source), PredTarget(switch, target))
        delta_dc == RSub(dc_before, dc_after)
    IN  IF RLeq(delta_dc, Rat(1, 1000)) THEN Inf ELSE RDiv(cost, delta_dc)

-----------------------------------------------------------------------------
(* Algorithm 1: the planner                                                *)

\* the (switch, target) pairs in the order of the nested loops
LoopPairs(dom, targets) ==
    [k \in 1..(Len(dom) * Len(targets)) |->
        <<dom[((k - 1) \div Len(targets)) + 1],
          targets[((k - 1) % Len(targets)) + 1]>>]

\* a filter that lets every candidate through
OverloadsNever(sw, tgt) == FALSE

\* would the migration push the target to T_high or beyond? (Eq 7)
Overloads(sw, tgt) ==
    LET added_load == RMul(_switch_resource_on_target(sw, tgt), R(100))
        pred_target == RAdd(tgt.load_percentage, added_load)
    IN  RLeq(THRESHOLDS[3], pred_target)

\* the tuple kept in `best`
Candidate(sw, source, tgt, eff) ==
    [ sw |-> sw.id, tgt |-> tgt.id, eff |-> eff,
      extra |-> [ cost |-> _migration_cost(sw, source, tgt),
                  efficiency |-> eff,
                  pred_src |-> PredSource(sw, source),
                  pred_tgt |-> PredTarget(sw, tgt),
                  dc_before |-> _pairwise_imbalance(source, tgt) ] ]

RECURSIVE BestFrom(_, _, _, _, _, _, _)
BestFrom(ctrls, sws, source, pairs, k, best, best_efficiency) ==
    IF k > Len(pairs) THEN best
    ELSE LET sw == sws[pairs[k][1]]
             tgt == ctrls[pairs[k][2]]
             eff == _migration_efficiency(sw, source, tgt)
         IN  IF Overloads(sw, tgt)
             THEN BestFrom(ctrls, sws, source, pairs, k + 1, best, best_efficiency)
             ELSE IF FLess(eff, best_efficiency)
             THEN BestFrom(ctrls, sws, source, pairs, k + 1,
                           <<Candidate(sw, source, tgt, eff)>>, eff)
             ELSE BestFrom(ctrls, sws, source, pairs, k + 1, best, best_efficiency)

_find_best_migration(ctrls, sws, source) ==
    LET dom_switches == DomSwitches(sws, source.id)
        targets == SelectSeq(ControllerIds(ctrls), LAMBDA c :
                       /\ ctrls[c].active
                       /\ c # source.id
                       /\ ctrls[c].level \in {IDLE, NORMAL})
    IN  IF dom_switches = << >> \/ targets = << >> THEN Nothing
        ELSE BestFrom(ctrls, sws, source, LoopPairs(dom_switches, targets),
                      1, Nothing, Inf)

\* a loop over the sources that stops at the first source with a candidate
RECURSIVE BestPairFromFirst(_, _, _, _, _, _)
BestPairFromFirst(ctrls, sws, sources, i, best_pair, best_eff) ==
    IF i > Len(sources) THEN best_pair
    ELSE LET src == ctrls[sources[i]]
             result == _find_best_migration(ctrls, sws, src)
         IN  IF result # Nothing
             THEN << [ sw |-> result[1].sw, src |-> src.id, tgt |-> result[1].tgt,
                       extra |-> result[1].extra ] >>
             ELSE BestPairFromFirst(ctrls, sws, sources, i + 1, best_pair, best_eff)

\* the loop of run_load_balancing over the sources
RECURSIVE BestPairFrom(_, _, _, _, _, _)
BestPairFrom(ctrls, sws, sources, i, best_pair, best_eff) ==
    IF i > Len(sources) THEN best_pair
    ELSE LET src == ctrls[sources[i]]
             result == _find_best_migration(ctrls, sws, src)
         IN  IF result # Nothing /\ FLess(result[1].eff, best_eff)
             THEN BestPairFrom(ctrls, sws, sources, i + 1,
                               << [ sw |-> result[1].sw, src |-> src.id,
                                    tgt |-> result[1].tgt,
                                    extra |-> result[1].extra ] >>,
                               result[1].eff)
             ELSE BestPairFrom(ctrls, sws, sources, i + 1, best_pair, best_eff)

\* the controllers after "ensure all loads are current"
Recomputed(ctrls, sws) ==
    [c \in DOMAIN ctrls |-> _compute_controller_load(ctrls[c], sws)]

\* the (switch, source, target, extra) run_load_balancing decides on, if any
Plan(ctrls, sws) ==
    LET sources == SelectSeq(ControllerIds(ctrls), LAMBDA c :
                       /\ ctrls[c].active
                       /\ ctrls[c].level \in {HIGH, OVERLOAD})
    IN  IF sources = << >> THEN Nothing
        ELSE BestPairFrom(ctrls, sws, sources, 1, Nothing, Inf)

-----------------------------------------------------------------------------
(* Algorithm 2: executing the migration                                    *)

Pow10(k) == IF k = 2 THEN 100 ELSE 10000

\* floor(n * 10^k / d) and the remainder, by long division
RECURSIVE LongDiv(_, _, _, _)
LongDiv(q, r, d, k) ==
    IF k = 0 THEN <<q, r>>
    ELSE LongDiv(q * 10 + (r * 10) \div d, (r * 10) % d, d, k - 1)

\* round(x, k) for x >= 0: to the nearest multiple of 10^-k, halves to even
Round(x, k) ==
    LET qr == LongDiv(x[1] \div x[2], x[1] % x[2], x[2], k)
        q == qr[1]
        twice == 2 * qr[2]
        m == IF twice > x[2] THEN q + 1
             ELSE IF twice < x[2] THEN q
             ELSE IF q % 2 = 0 THEN q ELSE q + 1
    IN  Rat(m, Pow10(k))

\* MigrationRecord(...).to_dict(); time_str only reformats the timestamp
to_dict(record) ==
    [ timestamp |-> record.timestamp,
      switch_id |-> record.switch_id,
      source_controller |-> record.source_controller,
      target_controller |-> record.target_controller,
      source_load_before |-> Round(record.source_load_before, 2),
      source_load_after |-> Round(record.source_load_after, 2),
      target_load_before |-> Round(record.target_load_before, 2),
      target_load_after |-> Round(record.target_load_after, 2),
      migration_efficiency |-> Round(record.migration_efficiency, 4),
      migration_cost |-> Round(record.migration_cost, 4),
      imbalance_before |-> Round(record.imbalance_before, 4),
      imbalance_after |-> Round(record.imbalance_after, 4) ]

\* what subprocess.run(cmd, check=True, timeout=10) can do
ActuatorOutcomes == {"ok", "CalledProcessError", "TimeoutExpired"}

\* a reassignment that stores the switch's own id as its owner
ReassignToSelf(sws, sid, target) == [sws EXCEPT ![sid].controller_id = sid]

\* a reassignment that takes the whole source domain along
ReassignDomain(sws, sid, target) ==
    [s \in DOMAIN sws |->
        IF sws[s].controller_id = sws[sid].controller_id
        THEN [sws[s] EXCEPT !.controller_id = target.id] ELSE sws[s]]

\* switch.controller_id = target.id
Reassign(sws, sid, target) == [sws EXCEPT ![sid].controller_id = target.id]

\* the part of _execute_migration after the actuator returned normally
MigrationCommitted(ctrls, sws, pair) ==
    LET sws2 == Reassign(sws, pair.sw, ctrls[pair.tgt])
        source == _compute_controller_load(ctrls[pair.src], sws2)
        target == _compute_controller_load(ctrls[pair.tgt], sws2)
        record ==
          [ timestamp |-> now,
            switch_id |-> pair.sw,
            source_controller |-> source.id,
            target_controller |-> target.id,
            source_load_before |-> pair.extra.pred_src,
            source_load_after |-> source.load_percentage,
            target_load_before |-> pair.extra.pred_tgt,
            target_load_after |-> target.load_percentage,
            migration_efficiency |-> pair.extra.efficiency,
            migration_cost |-> pair.extra.cost,
            imbalance_before |-> pair.extra.dc_before,
            imbalance_after |-> _pairwise_imbalance(source, target) ]
        rec_dict == to_dict(record)
    IN  [ controllers |-> [ctrls EXCEPT ![pair.src] = source, ![pair.tgt] = target],
          switches |-> sws2,
          history |-> Append(migration_history, rec_dict),
          ret |-> <<rec_dict>>, log |-> NoneVal ]

\* an execution that does not look at what the actuator did
_execute_migration_regardless(ctrls, sws, pair, outcome) ==
    MigrationCommitted(ctrls, sws, pair)

\* the state and the return value after _execute_migration; ctrls are the
\* controllers as run_load_balancing recomputed them
_execute_migration(ctrls, sws, pair, outcome) ==
    IF outcome # "ok"
    THEN [ controllers |-> ctrls, switches |-> sws,
           history |-> migration_history, ret |-> Nothing,
           log |-> "Migration failed" ]
    ELSE MigrationCommitted(ctrls, sws, pair)

\* committed migrations the model follows
MaxHistory == 1

\* the same with the new record put in front of the history
CommitLatestFirst(after, outcome) ==
    /\ controllers' = after.controllers
    /\ switches' = after.switches
    /\ migration_history' = IF after.ret = Nothing THEN after.history
                            ELSE after.ret \o migration_history
    /\ last' = [op |-> "run_load_balancing", actuator |-> outcome, ret |-> after.ret,
                log |-> after.log]

\* the state is written back and the handler returns
Commit(after, outcome) ==
    /\ controllers' = after.controllers
    /\ switches' = after.switches
    /\ migration_history' = after.history
    /\ last' = [op |-> "run_load_balancing", actuator |-> outcome, ret |-> after.ret,
                log |-> after.log]

\* the actuator is called only when a pair was found
Execute(ctrls, best_pair) ==
    IF best_pair = Nothing
    THEN /\ controllers' = ctrls
         /\ last' = [op |-> "run_load_balancing", actuator |-> NoneVal, ret |-> Nothing,
                     log |-> NoneVal]
         /\ UNCHANGED <<switches, migration_history>>
    ELSE \E outcome \in ActuatorOutcomes :
            Commit(_execute_migration(ctrls, switches, best_pair[1], outcome), outcome)

Decide(ctrls) == Execute(ctrls, Plan(ctrls, switches))

\* one decision cycle
run_load_balancing ==
    /\ Len(migration_history) < MaxHistory
    /\ Decide(Recomputed(controllers, switches))
    /\ UNCHANGED <<distances, timeseries, now>>
    /\ UNCHANGED loader_vars

Next == update_controller_metrics \/ run_load_balancing

Spec == Init /\ [][Next]_vars

-----------------------------------------------------------------------------
(* Reports of any producer on the two-controller layout                    *)

\* what a producer may put into a report: also a burst above the capacity
\* of a controller
WideCounts == {<<0, 1>>, <<20, 1>>, <<40, 1>>}

WidePayloads == PayloadsOver(DpidStrings, WideCounts)

\* an agent started without DLBMT_CONTROLLER_ID reports as "unknown"; a
\* report may also carry no controller_id at all
WideReporterIds == DOMAIN controllers \cup {"unknown", NoneVal}

update_controller_metrics_wide ==
    \E cid \in WideReporterIds, p \in WidePayloads :
        Ingest([controller_id |-> cid, switches |-> p])

\* committed migrations the model follows on this layout
MaxHistoryWide == 2

\* one decision cycle
run_load_balancing_wide ==
    /\ Len(migration_history) < MaxHistoryWide
    /\ Decide(Recomputed(controllers, switches))
    /\ UNCHANGED <<distances, timeseries, now>>
    /\ UNCHANGED loader_vars

NextWide == update_controller_metrics_wide \/ run_load_balancing_wide

SpecWide == InitOf("pair") /\ [][NextWide]_vars

-----------------------------------------------------------------------------
(* Reports with fractional packet counts                                   *)

\* float(pkt_count) accepts any JSON number; 1/1000 of a packet keeps a load
\* under the 0.01 floor of Eq 8
FaintCounts == {<<0, 1>>, <<1, 1000>>, <<2, 1>>}

FaintPayloads == PayloadsOver(DpidStrings, FaintCounts)

update_controller_metrics_faint ==
    \E cid \in ReporterIds, p \in FaintPayloads :
        Ingest([controller_id |-> cid, switches |-> p])

NextFaint == update_controller_metrics_faint \/ run_load_balancing

SpecFaint == Init /\ [][NextFaint]_vars

-----------------------------------------------------------------------------
(* Three busy switches under one of two controllers                        *)

\* packets a switch of this layout reports in one window
ScenarioCounts == {<<0, 1>>, <<15, 1>>, <<30, 1>>}

ScenarioPayloads == PayloadsOver(DpidStrings, ScenarioCounts)

update_controller_metrics_scenario ==
    \E cid \in ReporterIds, p \in ScenarioPayloads :
        Ingest([controller_id |-> cid, switches |-> p])

NextScenario == update_controller_metrics_scenario \/ run_load_balancing

SpecScenario == InitOf("scenario") /\ [][NextScenario]_vars

-----------------------------------------------------------------------------
(* Two controllers placed near opposite corners of the layout rectangle,   *)
(* as _generate_random_positions can draw them from uniform(100, 900) and  *)
(* uniform(100, 500).                                                      *)

SpecCorner == InitOf("corner") /\ [][Next]_vars

-----------------------------------------------------------------------------
(* Ten switches under three controllers                                    *)

\* str(dpid) of the switches that carry traffic on this layout: s2 and s10
\* of c1, s5 and s6 of c2
TenDpidStrings == {"2", "5", "6", "10"}

TenPayloads == PayloadsOver(TenDpidStrings, {<<c, 1>> : c \in Counts})

update_controller_metrics_ten ==
    \E cid \in ReporterIds, p \in TenPayloads :
        Ingest([controller_id |-> cid, switches |-> p])

NextTen == update_controller_metrics_ten \/ run_load_balancing

SpecTen == InitOf("ten") /\ [][NextTen]_vars

-----------------------------------------------------------------------------
(* Snapshots                                                               *)

\* self.max_timeseries
max_timeseries == 120

\* ControllerLevel.label and ControllerLevel.color
LevelLabel == <<"Idle", "Normal", "High Load", "Overload">>
LevelColor == <<"#00ff88", "#00d4ff", "#ffaa00", "#ff006e">>

\* {controller_id: [switch_ids]}
build_mapping(ctrls, sws) == [c \in DOMAIN ctrls |-> DomSwitches(sws, c)]

\* the snapshot take_snapshot builds from the given controllers and switches
\* when time.time() returns t
SnapshotOf(ctrls, sws, t) ==
    LET mapping == build_mapping(ctrls, sws)
        domain_sizes == [c \in DOMAIN mapping |-> Len(mapping[c])]
        ctrl_data ==
            [c \in DOMAIN ctrls |->
                [ load |-> Round(ctrls[c].load_percentage, 2),
                  level |-> ctrls[c].level,
                  level_label |-> LevelLabel[ctrls[c].level],
                  level_color |-> LevelColor[ctrls[c].level],
                  switch_count |-> domain_sizes[c],
                  cpu_utilization |-> Round(ctrls[c].cpu_utilization, 2),
                  mem_utilization |-> Round(ctrls[c].mem_utilization, 2),
                  bw_utilization |-> Round(ctrls[c].bw_utilization, 2) ]]
        loads == SelectSeq(ControllerIds(ctrls), LAMBDA c : ctrls[c].active)
        avg_load == IF loads = << >> THEN R(0)
                    ELSE Round(RDiv(SumOver(ctrls, loads, "load_percentage"),
                                    R(Len(loads))), 2)
    IN  [ timestamp |-> t,
          controllers |-> ctrl_data,
          domain_sizes |-> domain_sizes,
          avg_load |-> avg_load,
          global_imbalance |-> Round(GlobalImbalanceOf(ctrls), 4) ]

\* the snapshot take_snapshot builds when time.time() returns t
SnapshotAt(t) == SnapshotOf(controllers, switches, t)

\* a ring that keeps the oldest entries
RingOfOldest(ts, snapshot) ==
    LET all == Append(ts, snapshot)
    IN  IF Len(all) > max_timeseries THEN SubSeq(all, 1, max_timeseries) ELSE all

\* self.timeseries after the append and the trim to the last max_timeseries
Ring(ts, snapshot) ==
    LET all == Append(ts, snapshot)
    IN  IF Len(all) > max_timeseries
        THEN SubSeq(all, Len(all) - max_timeseries + 1, Len(all))
        ELSE all

\* the handler when time.time() returns t
Snapshot(t) ==
    /\ timeseries' = Ring(timeseries, SnapshotAt(t))
    /\ now' = t
    /\ last' = [op |-> "take_snapshot", actuator |-> NoneVal,
                ret |-> <<SnapshotAt(t)>>, log |-> NoneVal]
    /\ UNCHANGED <<controllers, switches, migration_history, distances>>
    /\ UNCHANGED loader_vars

\* readings of the clock the model follows
MaxTime == 3

\* time.time() reads the wall clock: it may stand still between two calls and
\* it may have been set back
ClockReadings == {t \in {now - 1, now, now + 1} : t >= 1 /\ t <= MaxTime}

\* snapshots the model follows under a free clock
MaxSnapshots == 5

\* one snapshot, taken by a tick of the loop or for a client that connects
take_snapshot ==
    /\ Len(timeseries) < MaxSnapshots
    /\ \E t \in ClockReadings : Snapshot(t)

SpecSnap == Init /\ [][take_snapshot]_vars

\* snapshots the model follows when the ring fills
MaxTicks == 125

\* one snapshot, a clock tick after the one before
take_snapshot_apart ==
    /\ now < MaxTicks
    /\ Snapshot(now + 1)

SpecRing == Init /\ [][take_snapshot_apart]_vars

-----------------------------------------------------------------------------
(* Construction of the engine with the graph generator followed one loop   *)
(* iteration at a time.  Each value the generator rng returns is any value *)
(* of its range.                                                           *)

\* entries of TOPOLOGIES as get_topology reads them: nodes, edges,
\* controllers and one capacity vector per controller
GraphConfigs ==
    LET caps == << [cpu |-> 60, mem |-> 8, bw |-> 10],
                   [cpu |-> 90, mem |-> 24, bw |-> 15] >>
    IN  { [name |-> "line", nodes |-> 3, edges |-> 2, controllers |-> 1,
           capacities |-> caps],
          [name |-> "wedge", nodes |-> 3, edges |-> 2, controllers |-> 2,
           capacities |-> caps],
          [name |-> "ring", nodes |-> 3, edges |-> 3, controllers |-> 2,
           capacities |-> caps],
          [name |-> "kite", nodes |-> 4, edges |-> 4, controllers |-> 2,
           capacities |-> caps],
          [name |-> "diamond", nodes |-> 4, edges |-> 5, controllers |-> 2,
           capacities |-> caps] }

\* node positions the placement is followed on
Places == { <<100, 100>>, <<400, 500>> }

\* while ... attempts < e * 10
AttemptsPerEdge == 10

\* rng.shuffle(shuffled): any order of the nodes 0 .. n-1
Shuffles(n) ==
    {p \in [1..n -> 0..(n - 1)] : \A i, j \in 1..n : i # j => p[i] # p[j]}

\* the pair as it was drawn
AsDrawn(u, v) == <<u, v>>

\* if u > v: u, v = v, u (Graph.add_edge and has_edge of networkx take the
\* two ends in either order as well)
Ordered(u, v) == IF u > v THEN <<v, u>> ELSE <<u, v>>

\* the path through the shuffled nodes
SpanningTree(shuffled) ==
    {Ordered(shuffled[i - 1], shuffled[i]) : i \in 2..Len(shuffled)}

\* the engine object before _init_topology has run
Unbuilt ==
    /\ controllers = << >>
    /\ switches = << >>
    /\ distances = << >>
    /\ migration_history = << >>
    /\ timeseries = << >>
    /\ now = 1
    /\ last = [op |-> "__init__", actuator |-> NoneVal, ret |-> Nothing, log |-> NoneVal]
    /\ random = FreshRandom
    /\ loaded = << >>
    /\ app = AppStart
    /\ agent = AgentStart

\* get_topology has read the configuration and calls the generator
InitGraph ==
    /\ Unbuilt
    /\ \E cfg \in GraphConfigs :
          graph = [ stage |-> "shuffle", name |-> cfg.name,
                    nodes |-> cfg.nodes, edges |-> cfg.edges,
                    controllers |-> cfg.controllers,
                    links |-> {}, curr_edges |-> 0, attempts |-> 0 ]

engine_vars_but_last == <<controllers, switches, migration_history, distances,
                          timeseries, now>>

engine_vars == <<controllers, switches, migration_history, distances, timeseries,
                 now, last>>

\* the spanning tree
shuffle ==
    /\ graph.stage = "shuffle"
    /\ \E shuffled \in Shuffles(graph.nodes) :
          graph' = [graph EXCEPT !.stage = "grow",
                                 !.links = SpanningTree(shuffled),
                                 !.curr_edges = graph.nodes - 1,
                                 !.attempts = 0]
    /\ UNCHANGED <<app, agent, engine_vars, random, loaded>>

\* whether the loop runs once more
Growing(g) ==
    g.curr_edges < g.edges /\ g.attempts < g.edges * AttemptsPerEdge

\* one iteration of the while loop
add_random_edge ==
    /\ graph.stage = "grow"
    /\ Growing(graph)
    /\ \E u, v \in 0..(graph.nodes - 1) :
          graph' = IF u # v /\ Ordered(u, v) \notin graph.links
                   THEN [graph EXCEPT !.links = @ \cup {Ordered(u, v)},
                                      !.curr_edges = @ + 1,
                                      !.attempts = @ + 1]
                   ELSE [graph EXCEPT !.attempts = @ + 1]
    /\ UNCHANGED <<app, agent, engine_vars, random, loaded>>

\* node_degrees.get(n, 0)
Degree(links, n) ==
    Cardinality({l \in links : l[1] = n}) + Cardinality({l \in links : l[2] = n})

\* sorted(nodes, key=degree, reverse=True): the sort is stable, nodes of
\* equal degree stay in index order
RECURSIVE SortedByDegree(_, _)
SortedByDegree(nodes, links) ==
    IF nodes = {} THEN << >>
    ELSE LET first == CHOOSE n \in nodes : \A m \in nodes :
                        \/ Degree(links, m) < Degree(links, n)
                        \/ Degree(links, m) = Degree(links, n) /\ n <= m
         IN  <<first>> \o SortedByDegree(nodes \ {first}, links)

\* list(edges), written in the order of the pairs
RECURSIVE ListOf(_)
ListOf(links) ==
    IF links = {} THEN << >>
    ELSE LET first == CHOOSE l \in links : \A m \in links :
                        l[1] < m[1] \/ (l[1] = m[1] /\ l[2] <= m[2])
         IN  <<first>> \o ListOf(links \ {first})

\* (f"s{u+1}", f"s{v+1}")
formatted_links(node_edges) ==
    [i \in 1..Len(node_edges) |->
        <<SwitchName[node_edges[i][1] + 1], SwitchName[node_edges[i][2] + 1]>>]

\* what get_topology returns for the generated links and the positions drawn
TopologyOf(g, positions) ==
    LET cfg == CHOOSE c \in GraphConfigs : c.name = g.name
        sorted_nodes == SortedByDegree(0..(g.nodes - 1), g.links)
        k == IF g.controllers < g.nodes THEN g.controllers ELSE g.nodes
    IN  Located([ positions  |-> [i \in 1..g.nodes |-> positions[i - 1]],
                  ctrl_nodes |-> [i \in 1..k |-> sorted_nodes[i] + 1],
                  capacities |-> cfg.capacities ])
        @@ [ links |-> formatted_links(ListOf(g.links)), config |-> cfg ]

\* the generator returns; get_topology places the nodes and returns, and
\* _init_topology builds the engine from it
build_engine ==
    /\ graph.stage = "grow"
    /\ ~Growing(graph)
    /\ \E positions \in [0..(graph.nodes - 1) -> Places] :
          LET topo_data == TopologyOf(graph, positions)
              built == Constructed(topo_data)
          IN  /\ controllers' = built.controllers
              /\ switches' = built.switches
              /\ distances' = built.distances
              /\ loaded' = Append(loaded, topo_data)
    /\ graph' = [graph EXCEPT !.stage = "done", !.links = {},
                              !.curr_edges = 0, !.attempts = 0]
    /\ UNCHANGED <<migration_history, timeseries, now, last, random, app, agent>>

NextGraph == shuffle \/ add_random_edge \/ build_engine

SpecGraph == InitGraph /\ [][NextGraph]_vars

-----------------------------------------------------------------------------
(* Repeated calls of get_topology, each followed as a whole, with other    *)
(* users of the random module in between.  A generator made by Random(42)  *)
(* returns the values every generator of that seed returns; the shared     *)
(* generator of the module returns some value at each draw.                *)

\* if name not in TOPOLOGIES: name = "atlanta"
Resolved(name) ==
    IF name \in {c.name : c \in GraphConfigs} THEN name ELSE "line"

\* the names get_topology is called with: the configurations whose spanning
\* tree already has all the edges, and a name that is not configured
LoaderNames ==
    {c.name : c \in {d \in GraphConfigs : d.edges = d.nodes - 1}} \cup {"nowhere"}

\* what the generator can return to one call: the shuffled nodes and the
\* positions
Draws(cfg) == Shuffles(cfg.nodes) \X [0..(cfg.nodes - 1) -> Places]

\* drawn from the generator all callers share
FromShared(cfg) == Draws(cfg)

\* rng = random.Random(42): the values this seed has produced for the
\* configuration before, if it has
FromSeed(cfg) ==
    IF cfg.name \in DOMAIN random.stream
    THEN {random.stream[cfg.name]}
    ELSE Draws(cfg)

\* calls of get_topology the model follows
MaxLoads == 2

get_topology_call ==
    /\ Len(loaded) < MaxLoads
    /\ \E name \in LoaderNames :
          LET cfg == CHOOSE c \in GraphConfigs : c.name = Resolved(name)
          IN  \E drawn \in FromSeed(cfg) :
                LET g == [NoGraph EXCEPT !.name = cfg.name,
                                         !.nodes = cfg.nodes,
                                         !.edges = cfg.edges,
                                         !.controllers = cfg.controllers,
                                         !.links = SpanningTree(drawn[1]),
                                         !.curr_edges = cfg.nodes - 1]
                IN  /\ ~Growing(g)
                    /\ loaded' = Append(loaded, TopologyOf(g, drawn[2]))
                    /\ random' = [random EXCEPT
                                    !.stream = (cfg.name :> drawn) @@ @]
    /\ UNCHANGED <<app, agent, engine_vars, graph>>

\* draws from the shared generator the model follows
MaxShared == 2

\* random.gauss, random.random, random.sample, random.shuffle of the traffic
\* generator and the simulator
draw_shared ==
    /\ random.shared < MaxShared
    /\ random' = [random EXCEPT !.shared = @ + 1]
    /\ UNCHANGED <<app, agent, engine_vars, graph, loaded>>

NextLoader == get_topology_call \/ draw_shared

\* the module imported, no engine built and no call made yet
InitLoader ==
    /\ Unbuilt
    /\ graph = NoGraph

SpecLoader == InitLoader /\ [][NextLoader]_vars

-----------------------------------------------------------------------------
(* The queries of the REST API on the history and the time-series          *)

\* request.args.get("limit", 50, type=int) and ("limit", 60, type=int)
DefaultHistoryLimit == 50
DefaultSeriesLimit == 60

\* the limit parameter of the requests the model follows
Limits == {-1, 0, 1, 2}

\* lst[start:]: a negative start counts from the end, a start of zero or
\* more from the front
SliceFrom(lst, start) ==
    LET first == IF start < 0
                 THEN (IF Len(lst) + start > 0 THEN Len(lst) + start ELSE 0)
                 ELSE (IF start < Len(lst) THEN start ELSE Len(lst))
    IN  SubSeq(lst, first + 1, Len(lst))

\* GET /api/migration/history?limit=k
get_migration_history ==
    /\ \E limit \in Limits \cup {DefaultHistoryLimit} :
          last' = [op |-> "get_migration_history", actuator |-> NoneVal,
                   ret |-> <<SliceFrom(migration_history, -limit)>>, log |-> NoneVal,
                   limit |-> limit]
    /\ UNCHANGED <<controllers, switches, migration_history, distances,
                   timeseries, now>>
    /\ UNCHANGED loader_vars

\* GET /api/stats/timeseries?limit=k
get_timeseries ==
    /\ \E limit \in Limits \cup {DefaultSeriesLimit} :
          last' = [op |-> "get_timeseries", actuator |-> NoneVal,
                   ret |-> <<SliceFrom(timeseries, -limit)>>, log |-> NoneVal,
                   limit |-> limit]
    /\ UNCHANGED <<controllers, switches, migration_history, distances,
                   timeseries, now>>
    /\ UNCHANGED loader_vars

\* snapshots the model follows next to the queries
MaxQuerySnapshots == 1

take_snapshot_queried ==
    /\ Len(timeseries) < MaxQuerySnapshots
    /\ Snapshot(now + 1)

\* packet counts of the reports the model follows next to the queries
QueryCounts == {<<0, 1>>, <<20, 1>>}

update_controller_metrics_queried ==
    \E cid \in ReporterIds, p \in PayloadsOver(DpidStrings, QueryCounts) :
        Ingest([controller_id |-> cid, switches |-> p])

NextQuery ==
    \/ update_controller_metrics_queried
    \/ run_load_balancing_wide
    \/ take_snapshot_queried
    \/ get_migration_history
    \/ get_timeseries

SpecQuery == InitOf("pair") /\ [][NextQuery]_vars

-----------------------------------------------------------------------------
(* The push channel: a client connects while the loop ticks                *)

\* handle_connect: emits the topology and a state_update that carries
\* engine.take_snapshot()
handle_connect ==
    /\ Len(timeseries) < MaxSnapshots
    /\ \E t \in ClockReadings :
          /\ timeseries' = Ring(timeseries, SnapshotAt(t))
          /\ now' = t
          /\ last' = [op |-> "handle_connect", actuator |-> NoneVal,
                      ret |-> <<SnapshotAt(t)>>, log |-> NoneVal]
    /\ UNCHANGED <<controllers, switches, migration_history, distances>>
    /\ UNCHANGED loader_vars

NextConnect ==
    \/ take_snapshot
    \/ handle_connect
    \/ get_migration_history
    \/ get_timeseries

SpecConnect == Init /\ [][NextConnect]_vars

-----------------------------------------------------------------------------
(* app.py: what a tick of the simulation loop computes, and the requests   *)
(* that set its switches without taking sim_lock.                          *)

\* TrafficGenerator.__init__: resource units per packet-in per second
cpu_per_packet == <<6, 5>>
mem_per_packet == <<5, 2>>
bw_per_packet == <<2, 25>>

\* _generate_rates for the pattern "wave"
_generate_rates(sws, wave) == [s \in DOMAIN sws |-> wave[sws[s].controller_id]]

\* 0.9 + random.random() * 0.2 when random() returns 0.5
TickNoise == {<<1, 1>>}

\* TrafficGenerator.generate_tick: every switch gets a rate and the three
\* loads that follow from it
generate_tick(sws, rates, noise) ==
    [s \in DOMAIN sws |->
        [sws[s] EXCEPT !.packet_in_rate = rates[s],
                       !.load_cpu = RMul(RMul(rates[s], cpu_per_packet), noise),
                       !.load_mem = RMul(RMul(rates[s], mem_per_packet), noise),
                       !.load_bw  = RMul(RMul(rates[s], bw_per_packet), noise)]]

\* engine.update_controller_levels(): load and level of every controller
\* are brought up to date
update_controller_levels(ctrls, sws) == Recomputed(ctrls, sws)

\* a tick that calls the planner whatever the switch says
MigrateAlways(enabled) == TRUE

\* if auto_migration_enabled:
MigrateIf(enabled) == enabled

\* interval = 1.0 / simulation_speed if simulation_speed > 0 else 1.0
IntervalOf(speed) == IF RLess(R(0), speed) THEN RDiv(R(1), speed) ELSE R(1)

\* a clamp that has lost its floor
ClampBelowTen(speed) == RMin(speed, R(10))

\* max(0.1, min(speed, 10.0))
Clamp(speed) == RMax(Rat(1, 10), RMin(speed, R(10)))

\* the JSON values a request may carry under "enabled"
EnabledValues == {"true", "false", "0", "1", "\"\"", "\"false\""}

\* bool(value) of a parsed JSON value
Truthy(json) == json \notin {"false", "0", "\"\"", "null"}

\* POST /api/migration/auto, with "enabled" in the body or without it
toggle_auto_migration ==
    /\ \E data \in {<<v>> : v \in EnabledValues} \cup {<< >>} :
          app' = [app EXCEPT !.auto_migration_enabled =
                                IF data # << >> THEN Truthy(data[1]) ELSE ~@]
    /\ last' = [op |-> "toggle_auto_migration", actuator |-> NoneVal,
                ret |-> Nothing, log |-> NoneVal]
    /\ UNCHANGED <<engine_vars_but_last, graph, random, loaded, agent>>

\* the numbers a request may carry under "speed"
Speeds == {<<-1, 1>>, <<0, 1>>, <<1, 20>>, <<1000, 1>>}

\* POST /api/config/speed, with "speed" in the body or without it
configure_speed ==
    /\ \E data \in {<<v>> : v \in Speeds} \cup {<< >>} :
          LET speed == IF data # << >> THEN data[1] ELSE R(1)
          IN  app' = [app EXCEPT !.simulation_speed = Clamp(speed)]
    /\ last' = [op |-> "configure_speed", actuator |-> NoneVal,
                ret |-> Nothing, log |-> NoneVal]
    /\ UNCHANGED <<engine_vars_but_last, graph, random, loaded, agent>>

-----------------------------------------------------------------------------
(* app.py: the simulation thread followed statement by statement, beside a *)
(* request thread.  app.loop is the statement the simulation thread is     *)
(* about to execute, app.at the one of the request; sim_lock names its     *)
(* holder.  A statement of the tick may raise instead of completing.       *)

\* the statements of simulation_loop inside `with sim_lock:`
LoopInside == {"traffic", "levels", "balance", "recompute", "snapshot", "emit",
               "release"}

\* the steps of a tick that call into the traffic generator or the engine
Raising == {"traffic", "levels", "balance", "snapshot"}

\* passes of the loop the model follows
MaxPasses == 2

\* requests the model follows
MaxRequests == 1

\* the "wave" pattern init_simulation sets gives one rate per controller to
\* every switch of its domain; with the intensity and the gaussian noise it
\* is some positive rate.  The threads are followed under one wave: c1 busy,
\* the others quiet
BusyFirst == [c \in DOMAIN controllers |-> IF c = "c1" THEN <<20, 1>> ELSE <<5, 1>>]

\* a loop that goes on whatever the flag says
ContinuesAnyway(running) == TRUE

\* while simulation_running:
Continues(running) == running

loop_while ==
    /\ app.loop = "while"
    /\ IF Continues(app.simulation_running)
       THEN /\ app.ticks < MaxPasses
            /\ app' = [app EXCEPT !.loop = "sleep", !.ticks = @ + 1]
       ELSE app' = [app EXCEPT !.loop = "done"]
    /\ UNCHANGED <<engine_vars, graph, random, loaded, agent>>

\* interval = ...; time.sleep(interval)
loop_sleep ==
    /\ app.loop = "sleep"
    /\ app' = [app EXCEPT !.loop = "acquire",
                          !.interval = IntervalOf(app.simulation_speed)]
    /\ UNCHANGED <<engine_vars, graph, random, loaded, agent>>

\* with sim_lock: entered when the lock is free
loop_acquire ==
    /\ app.loop = "acquire"
    /\ app.sim_lock = "free"
    /\ app' = [app EXCEPT !.loop = "traffic", !.sim_lock = "loop"]
    /\ UNCHANGED <<engine_vars, graph, random, loaded, agent>>

\* the two threads
Threads == {"loop", "request"}

\* the statement a thread is about to execute
At(who) == IF who = "loop" THEN app.loop ELSE app.at

\* app when the thread has moved on to the statement pos
Moved(who, pos) ==
    IF who = "loop" THEN [app EXCEPT !.loop = pos] ELSE [app EXCEPT !.at = pos]

\* the statement that follows the call of run_load_balancing
Balanced(who) == IF who = "loop" THEN "snapshot" ELSE "release"

\* traffic_gen.generate_tick(), in simulation_loop and in init_simulation
traffic(who) ==
    /\ At(who) = "traffic"
    /\ \E noise \in TickNoise :
          switches' = generate_tick(switches, _generate_rates(switches, BusyFirst),
                                    noise)
    /\ app' = Moved(who, "levels")
    /\ UNCHANGED <<controllers, migration_history, distances, timeseries, now, last,
                   graph, random, loaded, agent>>

\* simulator.engine.update_controller_levels(), in simulation_loop, in
\* trigger_migration and as the last statement of init_simulation
levels(who) ==
    /\ At(who) = "levels"
    /\ controllers' = update_controller_levels(controllers, switches)
    /\ app' = Moved(who, IF who = "request" /\ app.request = "change_topology"
                         THEN "release" ELSE "balance")
    /\ UNCHANGED <<switches, migration_history, distances, timeseries, now, last,
                   graph, random, loaded, agent>>

\* run_load_balancing() up to the line that gives the switch its new owner:
\* called by trigger_migration, and by simulation_loop if
\* auto_migration_enabled
balance(who) ==
    /\ At(who) = "balance"
    /\ IF who = "loop" /\ ~MigrateIf(app.auto_migration_enabled)
       THEN /\ app' = Moved(who, Balanced(who))
            /\ UNCHANGED <<controllers, switches>>
       ELSE \E current \in {Recomputed(controllers, switches)} :
            \E best_pair \in {Plan(current, switches)} :
                /\ controllers' = current
                /\ \E outcome \in ActuatorOutcomes :
                      IF best_pair = Nothing \/ outcome # "ok"
                      THEN /\ app' = Moved(who, Balanced(who))
                           /\ UNCHANGED switches
                      ELSE /\ switches' = Reassign(switches, best_pair[1].sw,
                                                   current[best_pair[1].tgt])
                           /\ app' = [Moved(who, "recompute")
                                        EXCEPT !.pending = best_pair]
    /\ UNCHANGED <<migration_history, distances, timeseries, now, last,
                   graph, random, loaded, agent>>

\* the rest of _execute_migration: the two loads are recomputed and the
\* record is appended
recompute(who) ==
    /\ At(who) = "recompute"
    /\ \E pair \in {app.pending[1]} :
       \E after \in {MigrationCommitted(controllers, switches, pair)} :
           /\ controllers' = after.controllers
           /\ migration_history' = after.history
    /\ app' = [Moved(who, Balanced(who)) EXCEPT !.pending = Nothing]
    /\ UNCHANGED <<switches, distances, timeseries, now, last,
                   graph, random, loaded, agent>>

\* the statements both threads execute
Engine(who) == traffic(who) \/ levels(who) \/ balance(who) \/ recompute(who)

\* snapshot = simulator.engine.take_snapshot()
loop_snapshot ==
    /\ app.loop = "snapshot"
    /\ \E snapshot \in {SnapshotAt(now + 1)} :
          timeseries' = Ring(timeseries, snapshot)
    /\ now' = now + 1
    /\ app' = [app EXCEPT !.loop = "emit"]
    /\ UNCHANGED <<controllers, switches, migration_history, distances, last,
                   graph, random, loaded, agent>>

\* socketio.emit("state_update", ...); what it raises is swallowed
loop_emit ==
    /\ app.loop = "emit"
    /\ app' = [app EXCEPT !.loop = "release"]
    /\ UNCHANGED <<engine_vars, graph, random, loaded, agent>>

\* the with block is left at its end
loop_release ==
    /\ app.loop = "release"
    /\ app' = [app EXCEPT !.loop = "while", !.sim_lock = "free"]
    /\ UNCHANGED <<engine_vars, graph, random, loaded, agent>>

\* an exception that leaves the lock with the thread that raised
HeldThrough(holder) == holder

\* the with statement releases the lock when an exception leaves its block
Unwound(holder) == "free"

\* a step of the tick raises: the with block is left and the handler of
\* `except Exception` is entered
loop_raise ==
    /\ app.loop \in Raising
    /\ app' = [app EXCEPT !.loop = "except", !.sim_lock = Unwound(@)]
    /\ UNCHANGED <<engine_vars, graph, random, loaded, agent>>

\* logger.error(...); time.sleep(1)
loop_except ==
    /\ app.loop = "except"
    /\ app' = [app EXCEPT !.loop = "while", !.interval = R(1)]
    /\ UNCHANGED <<engine_vars, graph, random, loaded, agent>>

\* the requests followed: a read of the engine, a manual migration and a
\* change of topology
Requests == {"get_controllers", "trigger_migration", "change_topology"}

\* a reader that goes ahead without the lock
LockedUnlessReading(request) == request # "get_controllers"

\* every one of these handlers does its work under `with sim_lock:`
Locked(request) == TRUE

\* a request arrives
request_begin ==
    /\ app.request = "idle"
    /\ app.requests < MaxRequests
    /\ \E r \in Requests :
          app' = [app EXCEPT !.request = r, !.at = "acquire", !.requests = @ + 1]
    /\ UNCHANGED <<engine_vars, graph, random, loaded, agent>>

\* the first statement of each handler inside its with block
Body == [get_controllers |-> "read", trigger_migration |-> "levels",
         change_topology |-> "construct"]

\* with sim_lock: entered when the lock is free; change_topology has checked
\* the name and called init_simulation
request_acquire ==
    /\ app.at = "acquire"
    /\ Locked(app.request) => app.sim_lock = "free"
    /\ app' = [app EXCEPT !.at = Body[app.request],
                          !.sim_lock = IF Locked(app.request) THEN "request" ELSE @]
    /\ UNCHANGED <<engine_vars, graph, random, loaded, agent>>

\* get_controllers: the controllers and the switches are read; seen keeps
\* what the simulation thread was doing meanwhile
request_read ==
    /\ app.at = "read"
    /\ app' = [app EXCEPT !.at = "release", !.seen = app.loop]
    /\ UNCHANGED <<engine_vars, graph, random, loaded, agent>>

\* init_simulation: simulator = SDNSimulator(topology_name) and a new
\* TrafficGenerator
request_construct ==
    /\ app.at = "construct"
    /\ \E built \in {Constructed(get_topology("sim"))} :
          /\ controllers' = built.controllers
          /\ switches' = built.switches
          /\ distances' = built.distances
    /\ migration_history' = << >>
    /\ timeseries' = << >>
    /\ app' = [app EXCEPT !.at = "traffic"]
    /\ UNCHANGED <<now, last, graph, random, loaded, agent>>

\* the with block is left and the response is returned
request_release ==
    /\ app.at = "release"
    /\ app' = [app EXCEPT !.at = "idle", !.request = "idle",
                          !.sim_lock = IF @ = "request" THEN "free" ELSE @]
    /\ UNCHANGED <<engine_vars, graph, random, loaded, agent>>

\* simulation_running is cleared
stop ==
    /\ app.simulation_running
    /\ app' = [app EXCEPT !.simulation_running = FALSE]
    /\ UNCHANGED <<engine_vars, graph, random, loaded, agent>>

\* the statements of simulation_loop that complete, but for the ones it
\* shares with the handlers
LoopStep ==
    \/ loop_while
    \/ loop_sleep
    \/ loop_acquire
    \/ loop_snapshot
    \/ loop_emit
    \/ loop_release
    \/ loop_except

RequestStep ==
    \/ request_acquire
    \/ request_read
    \/ request_construct
    \/ request_release

NextThreads ==
    \/ \E who \in Threads : Engine(who)
    \/ LoopStep
    \/ loop_raise
    \/ request_begin
    \/ RequestStep
    \/ toggle_auto_migration
    \/ stop

SpecThreads == InitOf("sim") /\ [][NextThreads]_vars

\* the same with auto-migration left on
NextScheduled ==
    \/ \E who \in Threads : Engine(who)
    \/ LoopStep
    \/ loop_raise
    \/ request_begin
    \/ RequestStep
    \/ stop

\* the statements of either thread that call into the traffic generator or
\* the engine: each completes or raises whenever its thread is about to
\* execute it, nothing else moves the thread, so weak fairness of such a
\* statement is that its thread is again and again somewhere else
Computing == {"construct", "traffic", "levels", "balance", "recompute", "snapshot"}

\* the statements of simulation_loop that compute nothing
LoopControl ==
    \/ loop_while
    \/ loop_sleep
    \/ loop_acquire
    \/ loop_emit
    \/ loop_release
    \/ loop_except

\* the statements of a handler that compute nothing
RequestControl == request_acquire \/ request_read \/ request_release

\* the simulation thread and the request thread are scheduled as long as
\* they have a statement to execute
SpecThreadsFair ==
    /\ InitOf("sim")
    /\ [][NextScheduled]_vars
    /\ WF_vars(LoopControl)
    /\ WF_vars(RequestControl)
    /\ []<>(app.loop \notin Computing)
    /\ []<>(app.at \notin Computing)

\* the simulation thread under requests for another speed
NextSpeed == Engine("loop") \/ LoopStep \/ loop_raise \/ configure_speed

SpecSpeed == InitOf("sim") /\ [][NextSpeed]_vars

-----------------------------------------------------------------------------
(* One report with several entries, taken in entry by entry as the loop of  *)
(* update_controller_metrics does                                          *)

\* keys of a "switches" object on the two-controller layout: the dpid of a
\* switch of c1, the dpid of the switch of c2, a dpid no switch has, and a
\* key that is no integer
MixedKeys == {"1", "3", "4", "x"}

MixedCounts == {<<10, 1>>, <<20, 1>>}

\* entries of one such report
MaxItems == 2

\* switches_data.items(): the entries in the order of the object, no key
\* twice
Items ==
    {q \in UNION {[1..n -> MixedKeys \X MixedCounts] : n \in 0..MaxItems} :
        \A i, j \in DOMAIN q : i # j => q[i][1] # q[j][1]}

\* int(dpid_str) in a one-element sequence, or Nothing where int() raises
\* ValueError
int(dpid_str) == IF dpid_str \in DOMAIN IntOf THEN <<IntOf[dpid_str]>> ELSE Nothing

\* the switch the loop applies an entry of a report of cid to, or Nothing
\* where the loop body ends early: ValueError, no sid for the dpid, or a
\* switch assigned to another controller
Addressed(sws, cid, dpid_str) ==
    LET dpid == int(dpid_str)
    IN  IF dpid = Nothing THEN Nothing
        ELSE IF dpid[1] \notin DOMAIN dpid_map(sws) THEN Nothing
        ELSE IF sws[dpid_map(sws)[dpid[1]]].controller_id # cid THEN Nothing
        ELSE <<dpid_map(sws)[dpid[1]]>>

\* a loop that ends at the first entry it cannot use
Abandoned(rest) == << >>

\* continue: the loop goes on with the entries that follow
Skipped(rest) == rest

\* for dpid_str, pkt_count in switches_data.items(): ...
RECURSIVE EntriesApplied(_, _, _)
EntriesApplied(sws, cid, items) ==
    IF items = << >> THEN sws
    ELSE LET sid == Addressed(sws, cid, items[1][1])
         IN  IF sid = Nothing
             THEN EntriesApplied(sws, cid, Skipped(Tail(items)))
             ELSE EntriesApplied([sws EXCEPT ![sid[1]] = ApplyEntry(@, items[1][2])],
                                 cid, Tail(items))

\* one report arrives; last.data keeps what it carried
update_controller_metrics_mixed ==
    /\ \E cid \in DOMAIN controllers \cup {"unknown"}, items \in Items :
          /\ IF cid \notin DOMAIN controllers
             THEN UNCHANGED <<controllers, switches>>
             ELSE /\ switches' = EntriesApplied(switches, cid, items)
                  /\ controllers' =
                        [controllers EXCEPT ![cid] = Metered(controllers[cid], switches')]
          /\ last' = [op |-> "update_controller_metrics", actuator |-> NoneVal,
                      ret |-> Nothing,
                      log |-> IF cid \in DOMAIN controllers THEN NoneVal
                              ELSE "Unknown controller_id",
                      data |-> [controller_id |-> cid, switches |-> items]]
    /\ UNCHANGED <<migration_history, distances, timeseries, now>>
    /\ UNCHANGED loader_vars

SpecMixed == InitOf("pair") /\ [][update_controller_metrics_mixed]_vars

-----------------------------------------------------------------------------
(* Cycles under loads that stay as they are: on the three-controller       *)
(* layout the agents report until the first migration is committed, and    *)
(* from then on only decision cycles run                                   *)

\* committed migrations the model would follow under fixed loads
MaxQuiet == 6

\* a report of an agent, as long as no migration has been committed
update_controller_metrics_before ==
    /\ migration_history = << >>
    /\ \E cid \in ReporterIds, p \in Payloads :
          Ingest([controller_id |-> cid, switches |-> p])

\* one decision cycle
run_load_balancing_quiet ==
    /\ Len(migration_history) < MaxQuiet
    /\ \E current \in {Recomputed(controllers, switches)} : Decide(current)
    /\ UNCHANGED <<distances, timeseries, now>>
    /\ UNCHANGED loader_vars

NextQuiet == update_controller_metrics_before \/ run_load_balancing_quiet

SpecQuiet == InitOf("triple") /\ [][NextQuiet]_vars

-----------------------------------------------------------------------------
(* ryu_dlbmt_app.py: the monitor of an agent beside its event handlers.     *)
(* hub.spawn starts a green thread: the monitor and the handlers run in    *)
(* one OS thread and change over only where one of them waits.             *)

\* packet-in events the model follows
MaxPacketIns == 3

\* payloads the model follows
MaxWindows == 2

\* threads that change over at any statement
YieldsAnywhere(statement) == TRUE

\* the statements of _monitor at which it waits: hub.sleep(1) and
\* requests.post
Yields(statement) == statement \in {"sleep", "post"}

\* the orders list(d.keys()) may have for the keys the dict holds
KeyOrders(d) ==
    LET held == {k \in DOMAIN d : d[k] >= 0}
    IN  {q \in UNION {[1..n -> held] : n \in {Cardinality(held)}} :
            \A i, j \in DOMAIN q : i # j => q[i] # q[j]}

\* the statement after one pass of the for loop, or after a loop with no pass
AfterKeys(keys) == IF keys = << >> THEN "post" ELSE "read"

\* hub.sleep(1) returns; counts = {}; list(self.switch_packet_counts.keys())
monitor_wake ==
    /\ agent.monitor = "sleep"
    /\ Len(agent.payloads) < MaxWindows
    /\ \E keys \in KeyOrders(agent.switch_packet_counts) :
          agent' = [agent EXCEPT !.keys = keys,
                                 !.counts = NoKey(DOMAIN agent.counts),
                                 !.monitor = AfterKeys(keys)]
    /\ UNCHANGED <<engine_vars, graph, random, loaded, app>>

\* counts[str(dpid)] = self.switch_packet_counts.get(dpid, 0)
monitor_read ==
    /\ agent.monitor = "read"
    /\ \E dpid \in {agent.keys[1]} :
          agent' = [agent EXCEPT
                      !.counts[str(dpid)] =
                          IF agent.switch_packet_counts[dpid] >= 0
                          THEN agent.switch_packet_counts[dpid] ELSE 0,
                      !.monitor = "reset"]
    /\ UNCHANGED <<engine_vars, graph, random, loaded, app>>

\* self.switch_packet_counts[dpid] = 0, and on to the next dpid
monitor_reset ==
    /\ agent.monitor = "reset"
    /\ agent' = [agent EXCEPT !.switch_packet_counts[agent.keys[1]] = 0,
                              !.keys = Tail(@),
                              !.monitor = AfterKeys(Tail(agent.keys))]
    /\ UNCHANGED <<engine_vars, graph, random, loaded, app>>

\* the payload is built and posted; a POST that fails is logged, and the
\* loop goes back to its sleep either way
monitor_post ==
    /\ agent.monitor = "post"
    /\ \E delivered \in BOOLEAN :
          agent' = [agent EXCEPT
                      !.payloads = Append(@, [switches |-> agent.counts,
                                              delivered |-> delivered]),
                      !.monitor = "sleep"]
    /\ UNCHANGED <<engine_vars, graph, random, loaded, app>>

\* the sum of f over the keys in ks
RECURSIVE Sum(_, _)
Sum(f, ks) ==
    IF ks = {} THEN 0
    ELSE LET k == CHOOSE x \in ks : TRUE IN f[k] + Sum(f, ks \ {k})

\* a packet-in of switch dpid: setdefault(dpid, 0), then += 1; the handler
\* runs when the monitor waits
packet_in_handler ==
    /\ Yields(agent.monitor)
    /\ Sum(agent.packet_ins, AgentDpids) < MaxPacketIns
    /\ \E dpid \in AgentDpids :
          agent' = [agent EXCEPT
                      !.switch_packet_counts[dpid] = (IF @ >= 0 THEN @ ELSE 0) + 1,
                      !.packet_ins[dpid] = @ + 1]
    /\ UNCHANGED <<engine_vars, graph, random, loaded, app>>

\* a switch connects: setdefault(datapath.id, 0)
switch_features_handler ==
    /\ Yields(agent.monitor)
    /\ \E dpid \in AgentDpids :
          /\ agent.switch_packet_counts[dpid] < 0
          /\ agent' = [agent EXCEPT !.switch_packet_counts[dpid] = 0]
    /\ UNCHANGED <<engine_vars, graph, random, loaded, app>>

NextAgent ==
    \/ monitor_wake
    \/ monitor_read
    \/ monitor_reset
    \/ monitor_post
    \/ packet_in_handler
    \/ switch_features_handler

SpecAgent == InitOf("pair") /\ [][NextAgent]_vars

-----------------------------------------------------------------------------
(* Properties                                                              *)

\* the handler that completed last was a cycle that committed a migration
Committed == last.op = "run_load_balancing" /\ last.ret # Nothing

\* the dpid key under which the agents report switch s
KeyOf(s) == CHOOSE k \in DpidStrings : IntOf[k] = switches[s].dpid

ActiveIds(ctrls) == {c \in DOMAIN ctrls : ctrls[c].active}

\* C1: every switch's controller_id is the id of exactly one controller of
\* the registry, and that controller is active, after any sequence of
\* ingests and load-balancing cycles (actuator succeeding or failing).
C1_SingleActiveOwner ==
    \A s \in DOMAIN switches :
        LET owners == {c \in DOMAIN controllers :
                          controllers[c].id = switches[s].controller_id}
        IN  /\ Cardinality(owners) = 1
            /\ \A c \in owners : controllers[c].active

\* a switch was migrated and telemetry has been ingested since
C1_Witness ==
    /\ migration_history # << >>
    /\ last.op = "update_controller_metrics"
    /\ \E i \in DOMAIN migration_history :
          switches[migration_history[i].switch_id].controller_id =
              migration_history[i].target_controller

\* C2: once s has been migrated from src to tgt and for as long as tgt owns
\* it, every report from src that carries s's dpid leaves s (rate, projected
\* loads, owner) as it is and with it the load of tgt, while a report from
\* tgt that carries s's dpid sets the rate and the projected loads of s.
C2_StaleTelemetryRejected ==
    \A i \in DOMAIN migration_history :
        LET s == migration_history[i].switch_id
            src == migration_history[i].source_controller
            tgt == migration_history[i].target_controller
        IN  switches[s].controller_id = tgt =>
              \A p \in {q \in Payloads : KeyOf(s) \in DOMAIN q} :
                LET stale == ApplyReport(switches, [controller_id |-> src, switches |-> p])
                    fresh == ApplyReport(switches, [controller_id |-> tgt, switches |-> p])
                    rate == Rat(p[KeyOf(s)][1], p[KeyOf(s)][2])
                IN  /\ stale[s] = switches[s]
                    /\ LoadOf(controllers[tgt], stale) = LoadOf(controllers[tgt], switches)
                    /\ fresh[s].packet_in_rate = rate
                    /\ fresh[s].load_cpu = RMul(rate, TRAFFIC_TO_CPU_FACTOR)
                    /\ fresh[s].load_mem = RMul(rate, TRAFFIC_TO_MEM_FACTOR)
                    /\ fresh[s].load_bw = RMul(rate, TRAFFIC_TO_BW_FACTOR)

\* s was migrated while it carried load, tgt still owns it, and src has
\* reported since: its utilization no longer counts s
C2_Witness ==
    /\ last.op = "update_controller_metrics"
    /\ \E i \in DOMAIN migration_history :
          LET s == migration_history[i].switch_id
              src == controllers[migration_history[i].source_controller]
          IN  /\ switches[s].controller_id = migration_history[i].target_controller
              /\ RLess(R(0), switches[s].load_cpu)
              /\ src.last_update = now
              /\ RLess(src.cpu_utilization, R(100))
              /\ src.cpu_utilization =
                    Utilization(SumOver(switches, DomSwitches(switches, src.id),
                                        "load_cpu"), src.capacity_cpu)

\* C3: after every committed migration the target's recomputed
\* load_percentage is strictly below T_high = 75.
C3_TargetBelowHigh ==
    Committed =>
        RLess(controllers[last.ret[1].target_controller].load_percentage,
              THRESHOLDS[3])

\* a migration was committed onto a target that already carried load
C3_Witness ==
    /\ Committed
    /\ LET tgt == controllers[last.ret[1].target_controller]
       IN  Len(DomSwitches(switches, tgt.id)) > 1
           /\ RLess(R(0), tgt.load_percentage)

\* C4: immediately after every committed migration the target's recorded
\* level is IDLE or NORMAL.
C4_TargetStaysLight ==
    Committed =>
        controllers[last.ret[1].target_controller].level \in {IDLE, NORMAL}

\* C5: for every committed migration the pair-wise imbalance of (source,
\* target) computed from the loads recomputed after the commit is at most
\* the one computed from the loads at decision time, in exact terms and as
\* the record reports the two (imbalance_after, imbalance_before).
C5_PairImbalanceNotWorse ==
    [][(last'.op = "run_load_balancing" /\ last'.ret # Nothing) =>
          LET rec == last'.ret[1]
              before == Recomputed(controllers, switches)
          IN  /\ RLeq(_pairwise_imbalance(controllers'[rec.source_controller],
                                          controllers'[rec.target_controller]),
                      _pairwise_imbalance(before[rec.source_controller],
                                          before[rec.target_controller]))
              /\ RLeq(rec.imbalance_after, rec.imbalance_before)]_vars

\* a migration was committed from a source one of whose resource totals
\* exceeded the capacity at decision time (its ratio was clamped at 1)
C5_Witness ==
    /\ Committed
    /\ LET s == switches[last.ret[1].switch_id]
           src == controllers[last.ret[1].source_controller]
           dom == DomSwitches(switches, src.id)
       IN  \/ RLess(R(src.capacity_cpu), RAdd(SumOver(switches, dom, "load_cpu"), s.load_cpu))
           \/ RLess(R(src.capacity_mem), RAdd(SumOver(switches, dom, "load_mem"), s.load_mem))
           \/ RLess(R(src.capacity_bw), RAdd(SumOver(switches, dom, "load_bw"), s.load_bw))

\* C6 as stated: for any committed migration, with any number of active
\* controllers, the global imbalance after it is not greater than the
\* global imbalance at decision time.
C6_GlobalImbalanceNotWorse ==
    [][(last'.op = "run_load_balancing" /\ last'.ret # Nothing) =>
          RLeq(GlobalImbalanceOf(controllers'),
               GlobalImbalanceOf(Recomputed(controllers, switches)))]_vars

\* C6 amended: with exactly two active controllers the global imbalance
\* after a committed migration is not greater than the global imbalance at
\* decision time.
C6_GlobalImbalanceNotWorseForTwo ==
    [][(/\ last'.op = "run_load_balancing"
        /\ last'.ret # Nothing
        /\ Cardinality(ActiveIds(controllers)) = 2) =>
          RLeq(GlobalImbalanceOf(controllers'),
               GlobalImbalanceOf(Recomputed(controllers, switches)))]_vars

\* a migration was committed between the only two controllers, both of
\* which carry load afterwards
C6_Witness ==
    /\ Committed
    /\ Cardinality(ActiveIds(controllers)) = 2
    /\ \A c \in DOMAIN controllers : RLess(R(0), controllers[c].load_percentage)

\* C7: one invocation of run_load_balancing changes the owner of at most
\* one switch and appends at most one record to migration_history, however
\* many controllers are HIGH or OVERLOAD.
C7_OneMigrationPerCycle ==
    [][last'.op = "run_load_balancing" =>
          /\ Cardinality({s \in DOMAIN switches :
                 switches'[s].controller_id # switches[s].controller_id}) <= 1
          /\ Len(migration_history') <= Len(migration_history) + 1
          /\ SubSeq(migration_history', 1, Len(migration_history)) =
                migration_history]_vars

\* a migration was committed while a controller other than its source was
\* HIGH or OVERLOAD too, and the source kept a switch
C7_Witness ==
    /\ Committed
    /\ DomSwitches(switches, last.ret[1].source_controller) # << >>
    /\ \E c \in DOMAIN controllers :
          /\ c \notin {last.ret[1].source_controller, last.ret[1].target_controller}
          /\ controllers[c].level \in {HIGH, OVERLOAD}

\* C8: when the actuator call fails (command error or timeout) no switch
\* changes owner, no controller's load_percentage or level changes,
\* migration_history is unchanged and run_load_balancing returns None.
C8_FailedActuationCommitsNothing ==
    [][(/\ last'.op = "run_load_balancing"
        /\ last'.actuator \in {"CalledProcessError", "TimeoutExpired"}) =>
          /\ \A s \in DOMAIN switches :
                switches'[s].controller_id = switches[s].controller_id
          /\ \A c \in DOMAIN controllers :
                /\ controllers'[c].load_percentage = controllers[c].load_percentage
                /\ controllers'[c].level = controllers[c].level
          /\ migration_history' = migration_history
          /\ last'.ret = Nothing]_vars

\* the planner had found a pair and the actuator failed
C8_Witness ==
    /\ last.op = "run_load_balancing"
    /\ last.actuator \in {"CalledProcessError", "TimeoutExpired"}
    /\ Plan(controllers, switches) # Nothing

\* C9: every controller's load_percentage lies in [0, 100].
C9_LoadInRange ==
    \A c \in DOMAIN controllers :
        /\ RLeq(R(0), controllers[c].load_percentage)
        /\ RLeq(controllers[c].load_percentage, R(100))

\* a controller whose memory total exceeds its capacity stands at 100
C9_Witness ==
    \E c \in DOMAIN controllers :
        /\ controllers[c].load_percentage = R(100)
        /\ RLess(R(controllers[c].capacity_mem),
                 SumOver(switches, DomSwitches(switches, c), "load_mem"))

\* C10 as stated: the load lies in [T_{level-1}, T_level) for the recorded
\* level, with T_0 = 0 and T_4 = 100.
C10_LevelInHalfOpenBand ==
    \A c \in DOMAIN controllers :
        LET T == <<R(0), THRESHOLDS[1], THRESHOLDS[2], THRESHOLDS[3], R(100)>>
            l == controllers[c].load_percentage
            k == controllers[c].level
        IN  RLeq(T[k], l) /\ RLess(l, T[k + 1])

\* C10 amended: the recorded level is IDLE iff L < 25, NORMAL iff
\* 25 <= L < 50, HIGH iff 50 <= L < 75 and OVERLOAD iff 75 <= L <= 100
\* (the top band is closed).
C10_LevelMatchesLoad ==
    \A c \in DOMAIN controllers :
        LET l == controllers[c].load_percentage
            k == controllers[c].level
        IN  /\ k \in {IDLE, NORMAL, HIGH, OVERLOAD}
            /\ (k = IDLE) <=> RLess(l, R(25))
            /\ (k = NORMAL) <=> (RLeq(R(25), l) /\ RLess(l, R(50)))
            /\ (k = HIGH) <=> (RLeq(R(50), l) /\ RLess(l, R(75)))
            /\ (k = OVERLOAD) <=> (RLeq(R(75), l) /\ RLeq(l, R(100)))

\* after an ingest one controller stands exactly on a threshold and one at
\* the top of the scale
C10_Witness ==
    /\ last.op = "update_controller_metrics"
    /\ \E c \in DOMAIN controllers :
          controllers[c].load_percentage = THRESHOLDS[2] /\ controllers[c].level = HIGH
    /\ \E c \in DOMAIN controllers :
          controllers[c].load_percentage = R(100) /\ controllers[c].level = OVERLOAD

\* C11: the usage of every switch on every controller, by Eq 5 and by Eq 7,
\* lies in [0, 1]
C11_UsageInUnitInterval ==
    \A s \in DOMAIN switches, c \in DOMAIN controllers :
        /\ RLeq(R(0), _switch_resource_usage(switches[s], controllers[c]))
        /\ RLeq(_switch_resource_usage(switches[s], controllers[c]), R(1))
        /\ RLeq(R(0), _switch_resource_on_target(switches[s], controllers[c]))
        /\ RLeq(_switch_resource_on_target(switches[s], controllers[c]), R(1))

\* the active controllers all have the same load_percentage
AllEqual ==
    \A a, b \in ActiveIds(controllers) :
        controllers[a].load_percentage = controllers[b].load_percentage

\* every active controller has a load_percentage below 0.01
AllFaint ==
    \A a \in ActiveIds(controllers) :
        RLess(controllers[a].load_percentage, Rat(1, 100))

\* C12 as stated: the global imbalance is 0 if and only if all active
\* controllers have equal load_percentage
C12_ZeroIffAllEqual == (_global_imbalance = R(0)) <=> AllEqual

\* C12 amended: the global imbalance is 0 if and only if all active controllers
\* have equal load_percentage or all of them have a load_percentage below 0.01
C12_ZeroIffAllEqualOrFaint == (_global_imbalance = R(0)) <=> (AllEqual \/ AllFaint)

\* the loads differ, all of them are under the floor, and the imbalance is 0
C12_Witness == ~AllEqual /\ AllFaint /\ _global_imbalance = R(0)

\* C13: the time-series never holds more than 120 snapshots; a take_snapshot
\* call appends its snapshot and keeps the most recent 120 in their order; and
\* after k calls (here k = now - 1: every call moves the clock by one from 1)
\* the length is min(k, 120)
C13_BoundedRing ==
    /\ [](Len(timeseries) = IF now - 1 < 120 THEN now - 1 ELSE 120)
    /\ [][/\ Len(timeseries') <= 120
          /\ last'.op = "take_snapshot" =>
                LET all == Append(timeseries, last'.ret[1])
                    n == IF Len(all) < 120 THEN Len(all) ELSE 120
                IN  /\ Len(timeseries') = n
                    /\ \A i \in 1..n : timeseries'[i] = all[Len(all) - n + i]
          /\ last'.op # "take_snapshot" => timeseries' = timeseries]_vars

\* the ring is full and the snapshots of the first calls have left it
C13_Witness ==
    /\ Len(timeseries) = 120
    /\ timeseries[1].timestamp > 3
    /\ timeseries[120].timestamp = now

\* C15: of any two consecutive entries of the time-series the later one has
\* the strictly greater timestamp
C15_TimestampsStrictlyIncrease ==
    \A i \in 1..(Len(timeseries) - 1) :
        timeseries[i].timestamp < timeseries[i + 1].timestamp

\* C14: no step removes or rewrites an entry of migration_history; a cycle
\* whose actuation succeeded appends exactly one entry, the record it
\* returns, at the end; every other step leaves the history as it is. The
\* entries therefore stand in the order of the successful actuations.
C14_HistoryAppendOnly ==
    [][LET actuated == last'.op = "run_load_balancing" /\ last'.actuator = "ok"
       IN  /\ Len(migration_history') >= Len(migration_history)
           /\ \A i \in 1..Len(migration_history) :
                 migration_history'[i] = migration_history[i]
           /\ actuated => /\ Len(migration_history') = Len(migration_history) + 1
                           /\ migration_history'[Len(migration_history')] = last'.ret[1]
           /\ ~actuated => migration_history' = migration_history]_vars

\* a second, different record stands behind the first one, and a failed
\* actuation or a report came after it
C14_Witness ==
    /\ Len(migration_history) = 2
    /\ migration_history[1] # migration_history[2]
    /\ last.ret = Nothing

\* min(sum of the field over the switches c owns now / capacity, 1)
OwnedShare(c, field, capacity) ==
    RMin(RDiv(SumOver(switches, DomSwitches(switches, c), field), R(capacity)), R(1))

\* C16: after every operation each controller's load_percentage equals
\* 100 * (0.4 min(sumCPU/capCPU, 1) + 0.3 min(sumMEM/capMEM, 1)
\*        + 0.3 min(sumBW/capBW, 1)), the sums taken over the switches whose
\* controller_id is that controller at that moment
C16_LoadIsWeightedShare ==
    \A c \in DOMAIN controllers :
        controllers[c].load_percentage =
            RMul(R(100),
                 RAdd(RAdd(RMul(Rat(4, 10),
                                OwnedShare(c, "load_cpu", controllers[c].capacity_cpu)),
                           RMul(Rat(3, 10),
                                OwnedShare(c, "load_mem", controllers[c].capacity_mem))),
                      RMul(Rat(3, 10),
                           OwnedShare(c, "load_bw", controllers[c].capacity_bw))))

\* a migration was committed, the target now sums over two switches that
\* both carry traffic, and the source and a third controller that took no
\* part carry load as well
C16_Witness ==
    /\ Committed
    /\ Cardinality(DOMAIN controllers) = 3
    /\ \A c \in DOMAIN controllers : RLess(R(0), controllers[c].load_percentage)
    /\ LET dom == DomSwitches(switches, last.ret[1].target_controller)
       IN  /\ Len(dom) = 2
           /\ \A i \in 1..2 : RLess(R(0), switches[dom[i]].load_cpu)

\* the single-switch moves the claim calls admissible: the source is an
\* active HIGH or OVERLOAD controller that owns the switch, the target is
\* another active controller that is IDLE or NORMAL, and the predicted target
\* load is below 75
AdmissibleTriples ==
    {t \in (DOMAIN switches) \X (DOMAIN controllers) \X (DOMAIN controllers) :
        /\ controllers[t[2]].active
        /\ controllers[t[2]].level \in {HIGH, OVERLOAD}
        /\ switches[t[1]].controller_id = t[2]
        /\ controllers[t[3]].active
        /\ controllers[t[3]].level \in {IDLE, NORMAL}
        /\ t[3] # t[2]
        /\ RLess(RAdd(controllers[t[3]].load_percentage,
                      RMul(_switch_resource_on_target(switches[t[1]], controllers[t[3]]),
                           R(100))),
                 R(75))}

\* the migration efficiency of a triple
EfficiencyOf(t) == _migration_efficiency(switches[t[1]], controllers[t[2]], controllers[t[3]])

FiniteTriples == {t \in AdmissibleTriples : EfficiencyOf(t) # Inf}

\* t is admissible, its efficiency is finite and no admissible triple has a
\* smaller one
Optimal(t) ==
    /\ t \in FiniteTriples
    /\ \A u \in AdmissibleTriples : ~FLess(EfficiencyOf(u), EfficiencyOf(t))

\* C17: in a cycle, whenever an admissible triple with finite efficiency
\* exists the actuator is called; the triple the cycle decides on, and the one
\* a committed record names, is admissible with a finite efficiency that no
\* other admissible triple undercuts
C17_PlannerGloballyOptimal ==
    [][last'.op = "run_load_balancing" =>
          /\ FiniteTriples # {} => last'.actuator # NoneVal
          /\ last'.actuator # NoneVal =>
                LET p == Plan(controllers, switches)
                IN  /\ p # Nothing
                    /\ Optimal(<<p[1].sw, p[1].src, p[1].tgt>>)
          /\ last'.ret # Nothing =>
                Optimal(<<last'.ret[1].switch_id, last'.ret[1].source_controller,
                          last'.ret[1].target_controller>>)]_vars

\* the actuator was called and failed, so the state is the one decided on:
\* two sources have admissible triples of finite efficiency, and the
\* efficiencies are not all the same
C17_Witness ==
    /\ last.op = "run_load_balancing"
    /\ last.actuator = "TimeoutExpired"
    /\ \E t, u \in FiniteTriples :
          /\ t[2] # u[2]
          /\ FLess(EfficiencyOf(t), EfficiencyOf(u))

\* the switch ids in the order of Python string comparison
LexOrder == <<"s1", "s10", "s2", "s3", "s4", "s5", "s6", "s7", "s8", "s9">>

\* a < b as strings
LexLess(a, b) ==
    \E i, j \in 1..Len(LexOrder) : LexOrder[i] = a /\ LexOrder[j] = b /\ i < j

\* C18: when the cycle decides on (switch, source, target), no other switch
\* of the source that is admissible toward the same target with the same
\* migration efficiency has a lexicographically smaller id
C18_TieGoesToLexicographicallySmaller ==
    [][(last'.op = "run_load_balancing" /\ last'.actuator # NoneVal) =>
          LET p == Plan(controllers, switches)[1]
          IN  \A t \in AdmissibleTriples :
                  (/\ t[2] = p.src
                   /\ t[3] = p.tgt
                   /\ EfficiencyOf(t) = EfficiencyOf(<<p.sw, p.src, p.tgt>>))
                  => ~LexLess(t[1], p.sw)]_vars

\* the triples that pass every test of the planner but the safety filter
FilteredTriples ==
    {t \in (DOMAIN switches) \X (DOMAIN controllers) \X (DOMAIN controllers) :
        /\ controllers[t[2]].active
        /\ controllers[t[2]].level \in {HIGH, OVERLOAD}
        /\ switches[t[1]].controller_id = t[2]
        /\ controllers[t[3]].active
        /\ controllers[t[3]].level \in {IDLE, NORMAL}
        /\ t[3] # t[2]
        /\ t \notin AdmissibleTriples}

\* C19: a cycle that finds no active HIGH or OVERLOAD controller, or no
\* active IDLE or NORMAL controller besides the source, or only triples that
\* the safety filter rejects or whose efficiency is infinite, returns None
\* and changes no switch's owner and no history
C19_InfeasibleChangesNothing ==
    [][(last'.op = "run_load_balancing" /\ FiniteTriples = {}) =>
          /\ last'.ret = Nothing
          /\ \A s \in DOMAIN switches :
                switches'[s].controller_id = switches[s].controller_id
          /\ migration_history' = migration_history]_vars

\* a cycle returned None without calling the actuator although a source and
\* a target were there: one triple was rejected by the safety filter and
\* another one passed it with infinite efficiency
C19_Witness ==
    /\ last.op = "run_load_balancing"
    /\ last.actuator = NoneVal
    /\ last.ret = Nothing
    /\ FiniteTriples = {}
    /\ FilteredTriples # {}
    /\ AdmissibleTriples # {}

\* C20: a report whose controller_id is missing or not in the registry (the
\* handler logs "Unknown controller_id") changes no switch, no controller,
\* last_update included, no history and no time-series entry, and the handler
\* returns normally
C20_UnknownReporterDropped ==
    [][(/\ last'.op = "update_controller_metrics"
        /\ last'.log = "Unknown controller_id") =>
          /\ switches' = switches
          /\ controllers' = controllers
          /\ migration_history' = migration_history
          /\ timeseries' = timeseries
          /\ last'.ret = Nothing]_vars

\* such a report was dropped in a state with a committed migration, a
\* controller that never reported and a switch that carries traffic
C20_Witness ==
    /\ last.op = "update_controller_metrics"
    /\ last.log = "Unknown controller_id"
    /\ migration_history # << >>
    /\ \E c \in DOMAIN controllers : controllers[c].last_update = 0
    /\ \E s \in DOMAIN switches : RLess(R(0), switches[s].packet_in_rate)

\* the three switches of c1 report 30 packets each and the switch of c2 none
SingleOverload ==
    /\ \A s \in {"s1", "s2", "s3"} :
          switches[s].controller_id = "c1" /\ switches[s].packet_in_rate = R(30)
    /\ switches["s4"].controller_id = "c2"
    /\ switches["s4"].packet_in_rate = R(0)
    /\ controllers["c2"].last_update = now

\* |a - b| < 1
About(a, b) == RLess(RAbs(RSub(a, R(b))), R(1))

\* C21 as stated: in that scenario L(c1) is about 54 and L(c2) = 0, and a
\* cycle migrates one switch of c1 to c2, after which L(c1) is about 36 and
\* L(c2) about 18
C21_SingleOverloadMigrates ==
    [][(SingleOverload /\ last'.op = "run_load_balancing" /\ last'.actuator # "TimeoutExpired"
          /\ last'.actuator # "CalledProcessError") =>
          /\ About(controllers["c1"].load_percentage, 54)
          /\ controllers["c2"].load_percentage = R(0)
          /\ last'.ret # Nothing
          /\ last'.ret[1].source_controller = "c1"
          /\ last'.ret[1].target_controller = "c2"
          /\ About(controllers'["c1"].load_percentage, 36)
          /\ About(controllers'["c2"].load_percentage, 18)]_vars

\* C21 amended: in that scenario the cpu ratio 135/100 is clamped to 1, so
\* L(c1) = 100 * (0.4 + 0.3 * 36/4096 + 0.3 * 22.5/1000) = 40.94, which is
\* NORMAL, L(c2) = 0, and a cycle returns None without calling the actuator,
\* leaving every owner and both loads as they are
C21_SingleOverloadStaysPut ==
    [][(SingleOverload /\ last'.op = "run_load_balancing") =>
          /\ controllers["c1"].load_percentage = Rat(104803, 2560)
          /\ controllers["c1"].level = NORMAL
          /\ controllers["c2"].load_percentage = R(0)
          /\ last'.ret = Nothing
          /\ last'.actuator = NoneVal
          /\ switches' = switches
          /\ controllers' = controllers
          /\ migration_history' = migration_history]_vars

\* a cycle has run in the scenario
C21_Witness ==
    /\ SingleOverload
    /\ last.op = "run_load_balancing"
    /\ controllers["c1"].last_update = now

\* engine.infra_links: the links of the topology the engine was built from
infra_links == loaded[Len(loaded)].links

\* the switches that links connect to the ones already reached
RECURSIVE Component(_, _)
Component(reached, links) ==
    LET more == reached \cup
                {l[2] : l \in {m \in links : m[1] \in reached}} \cup
                {l[1] : l \in {m \in links : m[2] \in reached}}
    IN  IF more = reached THEN reached ELSE Component(more, links)

\* the engine has the configured controllers and switches, and its links
\* form a connected graph on the switches without self-loop or duplicate
LoadedGraphSound ==
    LET links == {infra_links[i] : i \in 1..Len(infra_links)}
    IN  /\ Cardinality(DOMAIN controllers) = graph.controllers
        /\ Cardinality(DOMAIN switches) = graph.nodes
        /\ \A i \in 1..Len(infra_links) : infra_links[i][1] # infra_links[i][2]
        /\ \A i, j \in 1..Len(infra_links) :
              i # j => {infra_links[i][1], infra_links[i][2]}
                         # {infra_links[j][1], infra_links[j][2]}
        /\ \A l \in links : l[1] \in DOMAIN switches /\ l[2] \in DOMAIN switches
        /\ Component({"s1"}, links) = DOMAIN switches

C24_DistancesInUnitInterval ==
    \A s \in DOMAIN distances : \A c \in DOMAIN distances[s] :
        /\ RLeq(R(0), distances[s][c])
        /\ RLeq(distances[s][c], R(1))

\* the last min(k, length) entries of a list, in order
LastOf(lst, k) ==
    SubSeq(lst, Len(lst) - (IF k < Len(lst) THEN k ELSE Len(lst)) + 1, Len(lst))

\* C25: the history and time-series queries with limit = k >= 0 return at
\* most k entries, and exactly the last min(k, length) entries in order,
\* k = 0 included
C25_LimitBoundsReply ==
    /\ (last.op = "get_migration_history" /\ last.limit >= 0) =>
          /\ Len(last.ret[1]) <= last.limit
          /\ last.ret[1] = LastOf(migration_history, last.limit)
    /\ (last.op = "get_timeseries" /\ last.limit >= 0) =>
          /\ Len(last.ret[1]) <= last.limit
          /\ last.ret[1] = LastOf(timeseries, last.limit)

\* C26: recomputing the loads and levels with no change to switch loads or
\* ownership in between leaves every controller's load_percentage and level
\* unchanged: a second _compute_controller_load gives what the first gave,
\* and a cycle that commits nothing right after a cycle that committed
\* nothing changes no controller
C26_RecomputationIdempotent ==
    /\ [](LET once == Recomputed(controllers, switches)
              twice == Recomputed(once, switches)
          IN  \A c \in DOMAIN controllers :
                /\ twice[c].load_percentage = once[c].load_percentage
                /\ twice[c].level = once[c].level)
    /\ [][(/\ last.op = "run_load_balancing" /\ last.ret = Nothing
           /\ last'.op = "run_load_balancing" /\ last'.ret = Nothing)
          => \A c \in DOMAIN controllers :
                /\ controllers'[c].load_percentage = controllers[c].load_percentage
                /\ controllers'[c].level = controllers[c].level]_vars

\* a cycle that committed nothing although a controller is at HIGH or above
C26_Witness ==
    /\ last.op = "run_load_balancing"
    /\ last.ret = Nothing
    /\ \E c \in DOMAIN controllers : controllers[c].level \in {HIGH, OVERLOAD}

\* C27: every committed migration (s, src, tgt) has, at decision time, src
\* active at level HIGH or OVERLOAD, tgt active at level IDLE or NORMAL and
\* different from src, and s owned by src; right after the commit s is owned
\* by tgt and no other switch has changed its owner
C27_CommitRespectsLevels ==
    [][(last'.op = "run_load_balancing" /\ last'.ret # Nothing) =>
          LET s == last'.ret[1].switch_id
              src == last'.ret[1].source_controller
              tgt == last'.ret[1].target_controller
              decided == Recomputed(controllers, switches)
          IN  /\ decided[src].active
              /\ decided[src].level \in {HIGH, OVERLOAD}
              /\ decided[tgt].active
              /\ decided[tgt].level \in {IDLE, NORMAL}
              /\ tgt # src
              /\ switches[s].controller_id = src
              /\ switches'[s].controller_id = tgt
              /\ \A o \in DOMAIN switches \ {s} :
                    switches'[o].controller_id = switches[o].controller_id]_vars

\* a migration was committed to a target that was not idle
C27_Witness ==
    /\ Committed
    /\ \E o \in DOMAIN switches :
          /\ o # last.ret[1].switch_id
          /\ switches[o].controller_id = last.ret[1].target_controller
          /\ switches[o].packet_in_rate # R(0)

\* C28: a call of update_controller_metrics for a controller c changes no
\* switch's controller_id, changes no switch that c does not own, changes no
\* controller other than c, and leaves migration_history and the
\* time-series as they were
C28_IngestFrame ==
    [][last'.op = "update_controller_metrics" =>
          /\ \A s \in DOMAIN switches :
                switches'[s].controller_id = switches[s].controller_id
          /\ \E c \in DOMAIN controllers :
                /\ \A s \in DOMAIN switches :
                      switches[s].controller_id # c => switches'[s] = switches[s]
                /\ \A o \in DOMAIN controllers \ {c} :
                      controllers'[o] = controllers[o]
          /\ migration_history' = migration_history
          /\ timeseries' = timeseries]_vars

\* a report was taken in while two controllers carry load
C28_Witness ==
    /\ last.op = "update_controller_metrics"
    /\ \E c, o \in DOMAIN controllers :
          /\ c # o
          /\ controllers[c].load_percentage # R(0)
          /\ controllers[o].load_percentage # R(0)
          /\ controllers[c].last_update = now

\* C29: the read-side handlers (the REST queries and the connect handler of
\* the push channel) never append to or otherwise modify the time-series or
\* the migration history
C29_ReadersLeaveSeriesAlone ==
    [][last'.op \in {"handle_connect", "get_migration_history", "get_timeseries"} =>
          /\ timeseries' = timeseries
          /\ migration_history' = migration_history]_vars

\* the utilization of one resource the snapshot should report for c: the
\* loads of the switches c owns over its capacity, in percent, capped
OwnedUtilization(c, field, capacity) ==
    Round(Utilization(SumOver(switches, DomSwitches(switches, c), field), capacity), 2)

\* C30: in the snapshot that follows a committed migration, cpu_utilization,
\* mem_utilization and bw_utilization of the source and of the target equal
\* the summed loads of the switches they own after the migration over their
\* capacity (capped)
C30_UtilizationFollowsMigration ==
    [][(Committed /\ last'.op = "take_snapshot") =>
          \A c \in {last.ret[1].source_controller, last.ret[1].target_controller} :
              LET reported == last'.ret[1].controllers[c]
              IN  /\ reported.cpu_utilization =
                        OwnedUtilization(c, "load_cpu", controllers[c].capacity_cpu)
                  /\ reported.mem_utilization =
                        OwnedUtilization(c, "load_mem", controllers[c].capacity_mem)
                  /\ reported.bw_utilization =
                        OwnedUtilization(c, "load_bw", controllers[c].capacity_bw)]_vars

\* C31: in every migration record, source_load_before and target_load_before
\* are the load_percentage the source and the target had right before the
\* commit, and source_load_after and target_load_after the ones they have
\* right after it (as to_dict rounds them)
C31_RecordHoldsLoadsAroundCommit ==
    [][(last'.op = "run_load_balancing" /\ last'.ret # Nothing) =>
          LET record == last'.ret[1]
              src == record.source_controller
              tgt == record.target_controller
              before == Recomputed(controllers, switches)
          IN  /\ record.source_load_before = Round(before[src].load_percentage, 2)
              /\ record.target_load_before = Round(before[tgt].load_percentage, 2)
              /\ record.source_load_after = Round(controllers'[src].load_percentage, 2)
              /\ record.target_load_after = Round(controllers'[tgt].load_percentage, 2)]_vars

\* who owns which switch
Owners == [s \in DOMAIN switches |-> switches[s].controller_id]

\* the simulation thread has executed a statement in this step
LoopMoved == app'.loop # app.loop

\* C32: the statements of a tick other than the call of run_load_balancing
\* change the owner of no switch and leave migration_history as it is, and
\* so does the tick that finds auto_migration_enabled false at its `if`; the
\* planner's migration is only carried out after that `if` found the flag on
C32_NoMigrationWhileAutoOff ==
    /\ [][(LoopMoved /\ (\/ app.loop \notin {"balance", "recompute"}
                         \/ (app.loop = "balance" /\ ~app.auto_migration_enabled)))
             => /\ Owners' = Owners
                /\ migration_history' = migration_history
                /\ app'.loop # "recompute"]_vars
    /\ [][(LoopMoved /\ app'.loop = "recompute")
             => (app.loop = "balance" /\ app.auto_migration_enabled)]_vars

\* a tick has passed its `if` with the switch off although the planner has
\* a migration to propose
C32_Witness ==
    /\ app.loop = "snapshot"
    /\ ~app.auto_migration_enabled
    /\ migration_history = << >>
    /\ Plan(Recomputed(controllers, switches), switches) # Nothing

\* C36: simulation_speed stays within [0.1, 10] after any config/speed
\* request, each tick sleeps 1/simulation_speed, and so the interval slept,
\* once the loop has slept, lies within [0.1 s, 10 s]
C36_IntervalWithinBounds ==
    /\ [](/\ RLeq(Rat(1, 10), app.simulation_speed)
          /\ RLeq(app.simulation_speed, R(10))
          /\ app.interval # R(0) =>
                /\ RLeq(Rat(1, 10), app.interval)
                /\ RLeq(app.interval, R(10)))
    /\ [][(LoopMoved /\ app.loop = "sleep")
             => app'.interval = RDiv(R(1), app.simulation_speed)]_vars

\* a tick has slept the longest interval, after a request for speed 0 or less
C36_Witness ==
    /\ app.loop = "acquire"
    /\ app.simulation_speed = Rat(1, 10)
    /\ app.interval = R(10)

\* C33: the tick emits state_update only after it has released sim_lock:
\* the simulation thread never stands at the emit while it holds the lock
C33_EmitAfterRelease == app.loop = "emit" => app.sim_lock # "loop"

\* C34: when a step of a tick raises, the simulation thread enters its
\* exception handler without the lock, goes back to the head of the loop,
\* ends only when simulation_running is cleared, and, as long as the flag is
\* set and the model follows another pass, reaches the next tick
C34_ErrorsContained ==
    /\ [](app.loop = "except" => app.sim_lock # "loop")
    /\ [](app.loop = "done" => ~app.simulation_running)
    /\ [][(LoopMoved /\ app.loop = "except") => app'.loop = "while"]_vars
    /\ ((app.loop = "except" /\ app.simulation_running /\ app.ticks < MaxPasses)
           ~> (app.loop = "traffic" \/ ~app.simulation_running))

\* a step of the tick has raised and a request has taken the lock the tick
\* was holding
C34_Witness ==
    /\ app.loop = "except"
    /\ app.sim_lock = "request"
    /\ app.simulation_running
    /\ app.ticks < MaxPasses

\* the thread is inside its with block
LoopHolds == app.loop \in LoopInside
RequestHolds == app.at \notin {"idle", "acquire"}

\* C35: the tick and a handler that works on the engine (a read, a manual
\* migration, init_simulation) are never inside their with blocks at once,
\* each holds sim_lock while inside, a reader never reads while the tick is
\* inside (so not between the reassignment of a switch and the recomputation
\* of the two loads), and no thread waits for the lock it holds itself
C35_MutualExclusion ==
    /\ ~(LoopHolds /\ RequestHolds)
    /\ LoopHolds => app.sim_lock = "loop"
    /\ RequestHolds => app.sim_lock = "request"
    /\ app.seen \notin LoopInside
    /\ app.loop = "acquire" => app.sim_lock # "loop"
    /\ app.at = "acquire" => app.sim_lock # "request"

\* a reader waits for the lock while the tick has reassigned a switch and
\* not yet recomputed the loads
C35_Witness ==
    /\ app.loop = "recompute"
    /\ app.request = "get_controllers"
    /\ app.at = "acquire"

\* C37: once simulation_running is cleared the simulation thread ends, it
\* begins no further pass (the one it was in is the last), and it does not
\* end holding sim_lock
C37_CooperativeShutdown ==
    /\ (~app.simulation_running ~> app.loop = "done")
    /\ [](app.loop = "done" => app.sim_lock # "loop")
    /\ [][~app.simulation_running => app'.ticks = app.ticks]_vars

\* the flag was cleared while the thread slept; it has run that one tick and
\* ended
C37_Witness ==
    /\ app.loop = "done"
    /\ Len(timeseries) = app.ticks
    /\ app.ticks > 0

\* C38: of a report of a known controller, every entry whose key is the
\* dpid of a switch the reporter owns is applied, whatever other entries the
\* report holds (a key that is no integer, a dpid of no switch, a switch of
\* another controller) and wherever they stand; every other switch is left
\* as it was; and the reporter's load is recomputed from its switches
C38_BadEntriesSkipped ==
    [][(/\ last'.op = "update_controller_metrics"
        /\ last'.data.controller_id \in DOMAIN controllers) =>
          LET cid == last'.data.controller_id
              items == last'.data.switches
          IN  /\ \A s \in DOMAIN switches :
                    LET mine == {i \in DOMAIN items :
                                    /\ items[i][1] \in DOMAIN IntOf
                                    /\ IntOf[items[i][1]] = switches[s].dpid
                                    /\ switches[s].controller_id = cid}
                    IN  IF mine = {} THEN switches'[s] = switches[s]
                        ELSE \A i \in mine :
                               /\ switches'[s].packet_in_rate = Float(items[i][2])
                               /\ switches'[s].load_cpu =
                                     RMul(Float(items[i][2]), TRAFFIC_TO_CPU_FACTOR)
                               /\ switches'[s].load_mem =
                                     RMul(Float(items[i][2]), TRAFFIC_TO_MEM_FACTOR)
                               /\ switches'[s].load_bw =
                                     RMul(Float(items[i][2]), TRAFFIC_TO_BW_FACTOR)
              /\ controllers'[cid].load_percentage =
                    LoadOf(controllers[cid], switches')
              /\ controllers'[cid].last_update = now]_vars

\* a report began with a key that is no integer and went on with a switch
\* of the reporter, whose rate is now the one reported
C38_Witness ==
    /\ last.op = "update_controller_metrics"
    /\ "data" \in DOMAIN last
    /\ last.data.controller_id = "c1"
    /\ Len(last.data.switches) = 2
    /\ last.data.switches[1][1] \in {"x", "3", "4"}
    /\ last.data.switches[2] = <<"1", <<20, 1>>>>
    /\ \E s \in DOMAIN switches :
          /\ switches[s].dpid = 1
          /\ switches[s].controller_id = "c1"
          /\ switches[s].packet_in_rate = R(20)
    /\ controllers["c1"].load_percentage # R(0)

\* the owner of every switch after the k-th migration of the history
RECURSIVE OwnersAfter(_)
OwnersAfter(k) ==
    IF k >= Len(migration_history) THEN Owners
    ELSE [OwnersAfter(k + 1) EXCEPT
            ![migration_history[k + 1].switch_id] =
                migration_history[k + 1].source_controller]

\* no cycle would commit a migration now
Quiet == Plan(Recomputed(controllers, switches), switches) = Nothing

\* C39: with the loads fixed, the cycles commit fewer than MaxQuiet
\* migrations and then none (the run of migrations ends by itself, before
\* the model stops following it), no assignment of the switches comes back
\* after a migration, and a cycle that finds nothing to migrate leaves every
\* switch where it is
C39_QuiescenceUnderFixedLoad ==
    /\ [](Len(migration_history) < MaxQuiet)
    /\ [](\A i, j \in 0..Len(migration_history) :
             i < j => OwnersAfter(i) # OwnersAfter(j))
    /\ [][(Quiet /\ last'.op = "run_load_balancing")
             => (Owners' = Owners /\ migration_history' = migration_history)]_vars

\* three migrations in a row were committed among three controllers and the
\* next cycle finds nothing to migrate
C39_Witness ==
    /\ Len(migration_history) >= 2
    /\ Quiet
    /\ last.op = "run_load_balancing"
    /\ last.ret = Nothing

\* what a dict of counts holds under key k, 0 if it does not hold k
Held(d, k) == IF d[k] >= 0 THEN d[k] ELSE 0

\* the packet-ins of dpid that the payloads built so far report
Reported(dpid) ==
    Sum([i \in DOMAIN agent.payloads |-> Held(agent.payloads[i].switches, str(dpid))],
        DOMAIN agent.payloads)

\* C40: whenever the monitor waits, every packet-in handled for a dpid is
\* counted once: in one of the payloads built so far, in the counts the
\* monitor is about to post, or in the counter of the window that is open
C40_EveryPacketInCountedOnce ==
    \A dpid \in AgentDpids :
        /\ agent.monitor = "sleep" =>
              agent.packet_ins[dpid] =
                  Reported(dpid) + Held(agent.switch_packet_counts, dpid)
        /\ agent.monitor = "post" =>
              agent.packet_ins[dpid] =
                  Reported(dpid) + Held(agent.counts, str(dpid))
                                 + Held(agent.switch_packet_counts, dpid)

\* packet-ins of one switch arrived in two windows, also while a payload
\* was being posted, and both payloads report their share
C40_Witness ==
    /\ agent.monitor = "sleep"
    /\ Len(agent.payloads) = 2
    /\ agent.payloads[1].switches[str(1)] = 1
    /\ agent.payloads[2].switches[str(1)] = 2
    /\ agent.packet_ins[1] = 3

====
